---- MODULE Spec2Model ----
(***************************************************************************)
(* Codebase context index of my-react-project:                             *)
(*   scripts/contextExtractor.js  initDB, extractVariableRefs, addFile,    *)
(*                                cosineSim, search, askQwen, cleanup      *)
(*   utils/progressBar.js         processDirectory, main (the indexer)     *)
(*   scripts/generateReview.js    generateReviewForFile, main              *)
(*                                                                         *)
(* Three specifications share the variables:                               *)
(*   SpecExtract   extractVariableRefs applied to bounded syntax trees     *)
(*   Spec          the indexer process against the sqlite store, one       *)
(*                 queued statement at a time                              *)
(*   SpecRetrieve  search and the sessions that own a store handle         *)
(***************************************************************************)
EXTENDS Integers, Sequences, FiniteSets, TLC

VARIABLES
    exSrc,      \* SpecExtract: [path, content] handed to extractVariableRefs
    exRefs,     \* SpecExtract: the returned refs array
    exDone,     \* SpecExtract: extractVariableRefs has returned
    disk,       \* the source tree: text of every eligible file
    schema,     \* tables and indices that exist in the store file
    docs,       \* rows of table docs as the open connection sees them
    refs,       \* rows of table variable_refs as the open connection sees them
    cdocs,      \* rows of docs in the last committed state of the store file
    crefs,      \* rows of variable_refs in the last committed state
    txn,        \* the connection is inside BEGIN TRANSACTION
    queue,      \* statements queued on the handle by db.serialize, oldest first
    proc,       \* the indexer process: none, walking, draining, exit0, exit1, crashed
    stack,      \* processDirectory activations, innermost last: [dir, i]
    pc,         \* the innermost activation: loop, or embed while addFile awaits embed
    cur,        \* the addFile call that awaits embed: [path, text]
    handle,     \* the handle initDB returned: none, open, closed
    passed,     \* history: paths passed to addFile in this run
    order,      \* history: the paths in the order they were passed to addFile
    call,       \* history: the last addFile call of this run
    faults,     \* history: statements failed by the environment so far
    runs,       \* history: indexer processes started so far
    up,         \* history: the upsert whose statements the store executes
    uniqueHit,  \* history: an INSERT INTO docs was rejected by UNIQUE(path)
    ran,        \* history: the statement the store of the indexer took up last: [op, path]
    sess,       \* SpecRetrieve: the running call: [kind, pc, k, refresh, left, embedFailed]
    qEmb,       \* SpecRetrieve: the embedded query inside search
    results,    \* SpecRetrieve: the array search resolved with
    currentContext, \* the module variable currentContext of contextExtractor.js
    sessions,   \* history: calls started so far
    last,       \* history: the search that resolved last in the running call:
                \* [input, k, results, same, before]
    cs,         \* SpecCosine: one pair of vectors and the scores cosineSim gives:
                \* [a, b, ab, ba, done]
    pw          \* SpecPatch: the patch writer process (scripts/pre-commit.js, main)

exVars == <<exSrc, exRefs, exDone>>

calcVars == <<cs>>

patchVars == <<pw>>

storeVars == <<schema, docs, refs, cdocs, crefs, txn, queue>>

walkVars == <<proc, stack, pc, cur, handle, passed, order, call>>

histVars == <<faults, runs, up, uniqueHit, ran>>

sessVars == <<sess, qEmb, results, currentContext, sessions, last>>

vars == <<exSrc, exRefs, exDone, disk, schema, docs, refs, cdocs, crefs, txn, queue,
          proc, stack, pc, cur, handle, passed, order, call, faults, runs, up, uniqueHit, ran,
          sess, qEmb, results, currentContext, sessions, last, cs, pw>>

(***************************************************************************)
(* Values                                                                  *)
(***************************************************************************)
\* JavaScript undefined (a property that was never set) and SQL NULL
Undefined == "undefined"
NULL == "NULL"

(***************************************************************************)
(* Syntax trees as @babel/parser builds them.  Every node carries its      *)
(* type, the name of an Identifier, the value of a StringLiteral, the line *)
(* of loc.start and its children in the order @babel/traverse visits.      *)
(***************************************************************************)
Node(type, name, value, line, kids) ==
    [type |-> type, name |-> name, value |-> value, line |-> line, kids |-> kids]

Identifier(name, line) == Node("Identifier", name, "", line, <<>>)

\* import { a } from "x"
\*   ImportDeclaration(specifiers: [ImportSpecifier(imported, local)], source)
ImportStmt(local, source, line) ==
    Node("ImportDeclaration", "", "", line,
         << Node("ImportSpecifier", "", "", line,
                 <<Identifier(local, line), Identifier(local, line)>>),
            Node("StringLiteral", "", source, line, <<>>) >>)

\* import { a as b, c } from "x", specs = << <<"a", "b">>, <<"c", "c">> >>
ImportListStmt(specs, source, line) ==
    Node("ImportDeclaration", "", "", line,
         [i \in 1..Len(specs) |->
             Node("ImportSpecifier", "", "", line,
                  <<Identifier(specs[i][1], line), Identifier(specs[i][2], line)>>)]
         \o << Node("StringLiteral", "", source, line, <<>>) >>)

\* export const b = 1
\*   ExportNamedDeclaration(declaration: VariableDeclaration(declarations:
\*     [VariableDeclarator(id: Identifier, init: NumericLiteral)]))
ExportConstStmt(name, line) ==
    Node("ExportNamedDeclaration", "", "", line,
         << Node("VariableDeclaration", "", "", line,
                 << Node("VariableDeclarator", "", "", line,
                         <<Identifier(name, line),
                           Node("NumericLiteral", "", "1", line, <<>>)>>) >>) >>)

\* const c = 1
ConstStmt(name, line) ==
    Node("VariableDeclaration", "", "", line,
         << Node("VariableDeclarator", "", "", line,
                 <<Identifier(name, line),
                   Node("NumericLiteral", "", "1", line, <<>>)>>) >>)

\* export function f() {}
\*   ExportNamedDeclaration(declaration: FunctionDeclaration(id, body))
ExportFunctionStmt(name, line) ==
    Node("ExportNamedDeclaration", "", "", line,
         << Node("FunctionDeclaration", "", "", line,
                 <<Identifier(name, line),
                   Node("BlockStatement", "", "", line, <<>>)>>) >>)

\* export default a
ExportDefaultStmt(name, line) ==
    Node("ExportDefaultDeclaration", "", "", line, <<Identifier(name, line)>>)

\* console.log(a, b)
\*   ExpressionStatement(CallExpression(callee: MemberExpression(object,
\*     property), arguments))
ConsoleLogStmt(args, line) ==
    Node("ExpressionStatement", "", "", line,
         << Node("CallExpression", "", "", line,
                 << Node("MemberExpression", "", "", line,
                         <<Identifier("console", line), Identifier("log", line)>>) >>
                 \o [i \in 1..Len(args) |-> Identifier(args[i], line)]) >>)

\* File(program: Program(body))
FileNode(body) ==
    Node("File", "", "", 1, <<Node("Program", "", "", 1, body)>>)

(***************************************************************************)
(* getFileType and the parser                                              *)
(***************************************************************************)
\* path.extname of the paths the model uses
ExtOf ==
    [p \in {"z.js", "lib/b.ts", "lib/README.md", "node_modules/c.js", "v.tsx"} |->
        CASE p = "z.js" -> ".js"
          [] p = "lib/b.ts" -> ".ts"
          [] p = "lib/README.md" -> ".md"
          [] p = "node_modules/c.js" -> ".js"
          [] p = "v.tsx" -> ".tsx"]

getFileType(filePath) ==
    [isJS  |-> ExtOf[filePath] \in {".js", ".jsx", ".ts", ".tsx"},
     isTS  |-> ExtOf[filePath] \in {".ts", ".tsx"},
     isJSX |-> ExtOf[filePath] \in {".jsx", ".tsx"}]

\* A file's text: whether it is syntactically valid, the grammar plugins it
\* needs, and the statements of its program.
Text(valid, needs, body) == [valid |-> valid, needs |-> needs, body |-> body]

\* parse(content, {plugins}) throws on text the enabled grammar rejects
ParseOk(content, filePath) ==
    LET fileType == getFileType(filePath)
        plugins == (IF fileType.isJSX THEN {"jsx"} ELSE {})
                   \cup (IF fileType.isTS THEN {"typescript"} ELSE {})
    IN  content.valid /\ content.needs \subseteq plugins

(***************************************************************************)
(* extractVariableRefs                                                     *)
(***************************************************************************)
Ref(name, filePath, line, type, source) ==
    [name |-> name, filePath |-> filePath, line |-> line, type |-> type, source |-> source]

\* String.prototype.includes("Declaration") over the node types of the model
TypeIncludesDeclaration(type) ==
    type \in {"ImportDeclaration", "ExportNamedDeclaration", "ExportDefaultDeclaration",
              "VariableDeclaration", "FunctionDeclaration", "ClassDeclaration"}

\* a node slot that holds null (an ExportNamedDeclaration without declaration)
NullNode == Node("null", "", "", 0, <<>>)

\* path.node.declaration of an ExportNamedDeclaration (null without one)
DeclarationOf(node) ==
    IF node.kids # <<>> /\ node.kids[1].type \in {"VariableDeclaration", "FunctionDeclaration", "ClassDeclaration"}
    THEN node.kids[1] ELSE NullNode

\* declaration.declarations is defined: only a VariableDeclaration has it

\* visitor ExportNamedDeclaration(path)
VisitExportNamedDeclaration(node, filePath) ==
    LET declaration == DeclarationOf(node)
    IN  IF declaration # NullNode /\ declaration.type = "VariableDeclaration"
        THEN LET declarations == declaration.kids
                 pushes == [i \in 1..Len(declarations) |->
                              LET d == declarations[i]
                                  id == d.kids[1]
                              IN  IF id.name # ""
                                  THEN <<Ref(id.name, filePath, d.line, "export", Undefined)>>
                                  ELSE <<>>]
                 Flat[i \in 0..Len(pushes)] ==
                     IF i = 0 THEN <<>> ELSE Flat[i - 1] \o pushes[i]
             IN  Flat[Len(pushes)]
        ELSE <<>>

\* a visitor that names the reference by specifier.imported
VisitImportDeclaration_ImportedName(node, filePath) ==
    LET n == Len(node.kids)
        source == node.kids[n]
        specifiers == SubSeq(node.kids, 1, n - 1)
    IN  [i \in 1..Len(specifiers) |->
            LET specifier == specifiers[i]
                imported == specifier.kids[1]
            IN  Ref(imported.name, filePath, specifier.line, "import", source.value)]

\* visitor ImportDeclaration(path)
VisitImportDeclaration(node, filePath) ==
    LET n == Len(node.kids)
        source == node.kids[n]
        specifiers == SubSeq(node.kids, 1, n - 1)
    IN  [i \in 1..Len(specifiers) |->
            LET specifier == specifiers[i]
                local == specifier.kids[Len(specifier.kids)]
            IN  Ref(local.name, filePath, specifier.line, "import", source.value)]

\* visitor Identifier(path): the bug-compatible parent test
VisitIdentifier(node, parentType, filePath) ==
    IF TypeIncludesDeclaration(parentType) THEN <<>>
    ELSE <<Ref(node.name, filePath, node.line, "usage", Undefined)>>

\* traverse(ast, visitors): depth first, a node's visitor before its children
RECURSIVE Traverse(_, _, _)
Traverse(node, parentType, filePath) ==
    LET own == CASE node.type = "ExportNamedDeclaration" -> VisitExportNamedDeclaration(node, filePath)
                 [] node.type = "ImportDeclaration" -> VisitImportDeclaration(node, filePath)
                 [] node.type = "Identifier" -> VisitIdentifier(node, parentType, filePath)
                 [] OTHER -> <<>>
        below[i \in 0..Len(node.kids)] ==
            IF i = 0 THEN <<>>
            ELSE below[i - 1] \o Traverse(node.kids[i], node.type, filePath)
    IN  own \o below[Len(node.kids)]

\* an extraction that recovers from syntax errors and walks what did parse
extractVariableRefs_ErrorRecovery(content, filePath) ==
    Traverse(FileNode(content.body), "", filePath)

\* parse throws inside the try block: the catch logs a warning and the
\* empty refs array is returned
extractVariableRefs(content, filePath) ==
    IF ParseOk(content, filePath)
    THEN Traverse(FileNode(content.body), "", filePath)
    ELSE <<>>

(***************************************************************************)
(* SpecExtract: extractVariableRefs on every program of at most MaxStmts   *)
(* statements over the statement forms above.                              *)
(***************************************************************************)
MaxStmts == 3

ExNames == {"a", "b"}

\* the statement forms a program line may hold, for a given line
StmtsAt(line) ==
    {ImportStmt(n, "x", line) : n \in ExNames}
    \cup {ExportConstStmt(n, line) : n \in ExNames}
    \cup {ConstStmt(n, line) : n \in ExNames}
    \cup {ExportFunctionStmt(n, line) : n \in ExNames}
    \cup {ExportDefaultStmt(n, line) : n \in ExNames}
    \cup {ConsoleLogStmt(<<"a", "b">>, line), ConsoleLogStmt(<<"a">>, line)}
    \cup {ImportListStmt(<< <<"a", "b">> >>, "y", line),
          ImportListStmt(<< <<"a", "a">>, <<"b", "b">> >>, "x", line)}

\* programs with statement i on line i
RECURSIVE ProgramsOfLen(_)
ProgramsOfLen(n) ==
    IF n = 0 THEN {<<>>}
    ELSE {Append(p, s) : p \in ProgramsOfLen(n - 1), s \in StmtsAt(n)}

(***************************************************************************)
(* The source tree the indexer walks (utils/progressBar.js)                *)
(***************************************************************************)
IGNORE_DIRS == {"node_modules", ".git", "dist", "build"}

CODE_EXTENSIONS == {".js", ".jsx", ".ts", ".tsx", ".py", ".java", ".cpp", ".h", ".cs"}

RootDir == "."

\* fs.readdirSync(dirPath) of every directory of the tree
ReadDir ==
    [d \in {RootDir, "lib", "node_modules"} |->
        CASE d = RootDir -> <<"lib", "node_modules", "z.js">>
          [] d = "lib" -> <<"README.md", "b.ts">>
          [] d = "node_modules" -> <<"c.js">>]

\* path.join(dirPath, file)
PathJoin(dirPath, file) ==
    CASE dirPath = RootDir -> file
      [] dirPath = "lib" /\ file = "README.md" -> "lib/README.md"
      [] dirPath = "lib" /\ file = "b.ts" -> "lib/b.ts"
      [] dirPath = "node_modules" /\ file = "c.js" -> "node_modules/c.js"

\* fs.statSync(fullPath).isDirectory()
IsDirectory(fullPath) == fullPath \in {"lib", "node_modules"}

\* the files a run is to index: allowed extension, no ignored directory above
RECURSIVE EligibleUnder(_)
EligibleUnder(dirPath) ==
    UNION { LET fullPath == PathJoin(dirPath, ReadDir[dirPath][k])
                file == ReadDir[dirPath][k]
            IN  IF IsDirectory(fullPath)
                THEN (IF file \in IGNORE_DIRS THEN {} ELSE EligibleUnder(fullPath))
                ELSE (IF ExtOf[fullPath] \in CODE_EXTENSIONS THEN {fullPath} ELSE {})
          : k \in 1..Len(ReadDir[dirPath]) }

EligibleFiles == EligibleUnder(RootDir)

\* the texts a file of the tree may hold, by name
TextOf ==
    [t \in {"A", "B", "bad", "P", "E"} |->
        CASE t = "A" -> Text(TRUE, {}, <<ImportStmt("a", "x", 1)>>)
          [] t = "B" -> Text(TRUE, {}, <<ExportConstStmt("b", 1)>>)
          \* a well-formed import followed by a line with a syntax error
          [] t = "bad" -> Text(FALSE, {}, <<ImportStmt("a", "x", 1)>>)
          \* console.log(toString, a)
          [] t = "P" -> Text(TRUE, {}, <<ConsoleLogStmt(<<"toString", "a">>, 1)>>)
          \* import a from ""
          [] t = "E" -> Text(TRUE, {}, <<ImportStmt("a", "", 1)>>)]

\* the texts each file of the tree takes over time
TextsOf ==
    [p \in EligibleFiles |->
        CASE p = "z.js" -> {"A", "B", "E"}
          [] p = "lib/b.ts" -> {"A", "bad"}]

\* The embedding provider is asked with temperature 0: the vector is a
\* function of the text.
Embedding ==
    [t \in DOMAIN TextOf |->
        CASE t = "A" -> <<1, 0>>
          [] t = "B" -> <<0, 1>>
          [] t = "bad" -> <<1, 1>>
          [] t = "P" -> <<1, 1>>
          [] t = "E" -> <<0, 1>>]

\* what the embedding endpoint does with one request: fetch rejects when it
\* is unreachable, else it answers with a status and, when ok, a vector
Response(reachable, ok, embedding) ==
    [reachable |-> reachable, ok |-> ok, embedding |-> embedding]

FailedResponses == {Response(FALSE, FALSE, <<>>), Response(TRUE, FALSE, <<>>)}

\* a client that answers a failed request with a zero vector
embed_ZeroOnFailure(response) ==
    [threw |-> FALSE,
     value |-> IF response.reachable /\ response.ok THEN response.embedding ELSE <<0, 0>>]

\* embed(text): resolves with data.embedding; a rejected fetch and a status
\* that is not ok are logged and thrown again
embed(response) ==
    IF response.reachable /\ response.ok
    THEN [threw |-> FALSE, value |-> response.embedding]
    ELSE [threw |-> TRUE, value |-> <<>>]

(***************************************************************************)
(* The sqlite store behind one handle                                      *)
(***************************************************************************)
\* JSON.stringify / JSON.parse of an embedding: the column holds text
JSONstringify(v) == <<"json", v>>

JSONparse(t) == t[2]

DocRow(id, path, content, embedding) ==
    [id |-> id, path |-> path, content |-> content, embedding |-> embedding]

RefRow(id, r) ==
    [id |-> id, variable_name |-> r.variable_name, file_path |-> r.file_path,
     line_number |-> r.line_number, ref_type |-> r.ref_type, source_path |-> r.source_path]

\* the parameters stmt.run binds for one ref (ref.type || "declaration",
\* ref.source || null)
BindRef(ref) ==
    [variable_name |-> ref.name, file_path |-> ref.filePath, line_number |-> ref.line,
     ref_type |-> IF ref.type \in {Undefined, ""} THEN "declaration" ELSE ref.type,
     source_path |-> IF ref.source \in {Undefined, ""} THEN NULL ELSE ref.source]

NoBind == [variable_name |-> "", file_path |-> "", line_number |-> 0,
           ref_type |-> "", source_path |-> NULL]

Stmt(op, path, content, embedding, bind) ==
    [op |-> op, path |-> path, content |-> content, embedding |-> embedding, bind |-> bind]

\* id INTEGER PRIMARY KEY: the rowid after the largest one in the table
NextId(rows) ==
    IF rows = {} THEN 1
    ELSE (CHOOSE m \in {r.id : r \in rows} : \A r \in rows : r.id <= m) + 1

\* initDB: the four CREATE ... IF NOT EXISTS of db.serialize
InitDBStmts ==
    <<Stmt("CREATE_DOCS", "", "", <<>>, NoBind),
      Stmt("CREATE_REFS", "", "", <<>>, NoBind),
      Stmt("CREATE_IDX_VAR_NAME", "", "", <<>>, NoBind),
      Stmt("CREATE_IDX_FILE_PATH", "", "", <<>>, NoBind)>>

\* addFile: the statements the db.serialize callback queues for one file
AddFileStmts(filePath, text, emb) ==
    LET extracted == extractVariableRefs(TextOf[text], filePath)
    IN  <<Stmt("BEGIN", filePath, text, JSONstringify(emb), NoBind),
          Stmt("DELETE_REFS", filePath, "", <<>>, NoBind),
          Stmt("DELETE_DOC", filePath, "", <<>>, NoBind),
          Stmt("INSERT_DOC", filePath, text, JSONstringify(emb), NoBind)>>
        \o [i \in 1..Len(extracted) |->
              Stmt("INSERT_REF", filePath, "", <<>>, BindRef(extracted[i]))]
        \o <<Stmt("COMMIT", filePath, "", <<>>, NoBind)>>

\* docs.path is declared UNIQUE: an INSERT of a path that has a row fails
UniqueViolation(s) == \E d \in docs : d.path = s.path

\* mutant: the docs table as created without UNIQUE on path
InsertDocAllowed_NoUnique(s) == TRUE

InsertDocAllowed(s) == ~UniqueViolation(s)

\* the statement can be executed at all by the engine in the current state
Executable(s) ==
    CASE s.op = "BEGIN" -> ~txn
      [] s.op = "COMMIT" -> txn
      [] s.op \in {"CREATE_DOCS", "CREATE_REFS"} -> TRUE
      [] s.op \in {"CREATE_IDX_VAR_NAME", "CREATE_IDX_FILE_PATH"} -> "variable_refs" \in schema
      [] s.op \in {"DELETE_REFS", "INSERT_REF"} -> "variable_refs" \in schema
      [] s.op = "DELETE_DOC" -> "docs" \in schema
      [] s.op = "INSERT_DOC" -> "docs" \in schema /\ InsertDocAllowed(s)

SchemaAfter(s) ==
    CASE s.op = "CREATE_DOCS" -> schema \cup {"docs"}
      [] s.op = "CREATE_REFS" -> schema \cup {"variable_refs"}
      [] s.op = "CREATE_IDX_VAR_NAME" -> schema \cup {"idx_var_name"}
      [] s.op = "CREATE_IDX_FILE_PATH" -> schema \cup {"idx_file_path"}
      [] OTHER -> schema

\* CREATE TABLE docs that drops the table it finds
DocsAfter_DropCreate(s) ==
    CASE s.op = "CREATE_DOCS" -> {}
      [] s.op = "DELETE_DOC" -> {d \in docs : d.path # s.path}
      [] s.op = "INSERT_DOC" -> docs \cup {DocRow(NextId(docs), s.path, s.content, s.embedding)}
      [] OTHER -> docs

\* the docs rows after the statement: CREATE TABLE IF NOT EXISTS touches no row
DocsAfter(s) ==
    CASE s.op = "DELETE_DOC" -> {d \in docs : d.path # s.path}
      [] s.op = "INSERT_DOC" -> docs \cup {DocRow(NextId(docs), s.path, s.content, s.embedding)}
      [] OTHER -> docs

RefsAfter(s) ==
    CASE s.op = "DELETE_REFS" -> {r \in refs : r.file_path # s.path}
      [] s.op = "INSERT_REF" -> refs \cup {RefRow(NextId(refs), s.bind)}
      [] OTHER -> refs

TxnAfter(s) ==
    CASE s.op = "BEGIN" -> TRUE
      [] s.op = "COMMIT" -> FALSE
      [] OTHER -> txn

(***************************************************************************)
(* History kept for the properties                                         *)
(***************************************************************************)
\* the columns of a variable_refs row without its rowid
RefVal(r) ==
    [variable_name |-> r.variable_name, file_path |-> r.file_path,
     line_number |-> r.line_number, ref_type |-> r.ref_type, source_path |-> r.source_path]

\* the references stored for a path, as a bag of column values
RefBag(rows, p) ==
    LET mine == {r \in rows : r.file_path = p}
    IN  [v \in {RefVal(r) : r \in mine} |-> Cardinality({r \in mine : RefVal(r) = v})]

\* the bag of rows a sequence of extracted refs is bound to
BagOfSeq(seq) ==
    [v \in {BindRef(seq[i]) : i \in DOMAIN seq} |->
        Cardinality({i \in DOMAIN seq : BindRef(seq[i]) = v})]

NoUp ==
    [phase |-> "none", path |-> "", text |-> "", emb |-> <<>>,
     pre |-> [docs |-> {}, refs |-> {}], failed |-> FALSE, committed |-> FALSE]

NoCur == [path |-> "", text |-> ""]

\* no statement taken up yet on this handle
NoRan == [op |-> "none", path |-> ""]

\* no addFile call yet; of a call: the path, the committed rows of the path
\* when addFile was called, whether the embedding request failed, and how
\* the call went on (awaiting, queued, rejected)
NoCall ==
    [path |-> "", pre |-> [docs |-> {}, refs |-> {}], providerFailed |-> FALSE,
     outcome |-> "none"]

(***************************************************************************)
(* Bounds                                                                  *)
(***************************************************************************)
\* statements the environment may fail (SQLITE_BUSY, SQLITE_FULL, SQLITE_IOERR)
MaxFaults == 1

\* indexer processes started one after the other
MaxRuns == 2

(***************************************************************************)
(* The indexer process: main, processDirectory, addFile                    *)
(***************************************************************************)
ProcEnded == proc \in {"none", "exit0", "exit1", "crashed"}

\* The main thread is in the event loop: it awaits the embedding request or
\* main has returned.  Only then a finished statement is reported and the
\* next one of the queue is started; the code between two awaits of the
\* walk runs to completion first.
LoopIdle ==
    \/ proc = "walking" /\ pc = "embed"
    \/ proc = "draining"
    \/ sess.pc \in {"embed", "rows"}

Top == stack[Len(stack)]

Advance == [stack EXCEPT ![Len(stack)].i = @ + 1]

AtEntry ==
    /\ proc = "walking"
    /\ pc = "loop"
    /\ Top.i <= Len(ReadDir[Top.dir])

EntryName == ReadDir[Top.dir][Top.i]

EntryPath == PathJoin(Top.dir, EntryName)

\* the open transaction of a connection that goes away is never committed
Abandon(u) ==
    IF u.phase = "open" THEN [u EXCEPT !.phase = "ended", !.committed = FALSE] ELSE u

\* a developer edits a file between two runs
EditFile(p, t) ==
    /\ ProcEnded
    /\ runs < MaxRuns
    /\ t # disk[p]
    /\ disk' = [disk EXCEPT ![p] = t]
    /\ UNCHANGED <<exVars, calcVars, patchVars, sessVars, storeVars, walkVars, histVars>>

\* main: const db = initDB(); await processDirectory(db, path.resolve('./'))
StartIndexer ==
    /\ ProcEnded
    /\ runs < MaxRuns
    /\ proc' = "walking"
    /\ handle' = "open"
    /\ queue' = InitDBStmts
    /\ stack' = <<[dir |-> RootDir, i |-> 1]>>
    /\ pc' = "loop"
    /\ cur' = NoCur
    /\ passed' = {}
    /\ order' = <<>>
    /\ call' = NoCall
    /\ runs' = runs + 1
    /\ up' = NoUp
    /\ UNCHANGED <<exVars, calcVars, patchVars, sessVars, disk, schema, docs, refs, cdocs, crefs, txn, faults, uniqueHit>>
    /\ ran' = NoRan

\* a walk that never skips a directory
IsIgnoredDir_Never(file) == FALSE

\* IGNORE_DIRS.includes(file)
IsIgnoredDir(file) == file \in IGNORE_DIRS

\* CODE_EXTENSIONS.includes(path.extname(file))
HasCodeExtension(fullPath) == ExtOf[fullPath] \in CODE_EXTENSIONS

\* a walk that puts a subdirectory off until the directory is done
Descend_Deferred ==
    /\ AtEntry
    /\ IsDirectory(EntryPath)
    /\ ~IsIgnoredDir(EntryName)
    /\ stack' = <<[dir |-> EntryPath, i |-> 1]>> \o Advance
    /\ UNCHANGED <<exVars, calcVars, patchVars, sessVars, disk, storeVars, proc, pc, cur, handle, passed, order, call, histVars>>

\* processDirectory: a directory that is not ignored is walked before the
\* next entry of this one
Descend ==
    /\ AtEntry
    /\ IsDirectory(EntryPath)
    /\ ~IsIgnoredDir(EntryName)
    /\ stack' = Append(Advance, [dir |-> EntryPath, i |-> 1])
    /\ UNCHANGED <<exVars, calcVars, patchVars, sessVars, disk, storeVars, proc, pc, cur, handle, passed, order, call, histVars>>

\* processDirectory: an ignored directory, or a file without a code extension
SkipEntry ==
    /\ AtEntry
    /\ \/ IsDirectory(EntryPath) /\ IsIgnoredDir(EntryName)
       \/ ~IsDirectory(EntryPath) /\ ~HasCodeExtension(EntryPath)
    /\ stack' = Advance
    /\ UNCHANGED <<exVars, calcVars, patchVars, sessVars, disk, storeVars, proc, pc, cur, handle, passed, order, call, histVars>>

\* processDirectory -> addFile: readFileSync, then await embed(text)
AddFileRead ==
    /\ AtEntry
    /\ ~IsDirectory(EntryPath)
    /\ HasCodeExtension(EntryPath)
    /\ cur' = [path |-> EntryPath, text |-> disk[EntryPath]]
    /\ pc' = "embed"
    /\ passed' = passed \cup {EntryPath}
    /\ order' = Append(order, EntryPath)
    /\ call' = [path |-> EntryPath,
                pre |-> [docs |-> {d \in cdocs : d.path = EntryPath},
                         refs |-> {r \in crefs : r.file_path = EntryPath}],
                providerFailed |-> FALSE, outcome |-> "awaiting"]
    /\ stack' = Advance
    /\ UNCHANGED <<exVars, calcVars, patchVars, sessVars, disk, storeVars, proc, handle, histVars>>

\* mutant: a handle that takes the statements of the later call first
QueueUpsert_Front(emb) ==
    /\ queue' = AddFileStmts(cur.path, cur.text, emb) \o queue
    /\ pc' = "loop"
    /\ cur' = NoCur
    /\ UNCHANGED <<exVars, calcVars, patchVars, sessVars, disk, schema, docs, refs, cdocs, crefs, txn, proc, stack, handle,
                   passed, order, histVars>>

\* addFile after embed resolved: db.serialize queues the whole upsert and
\* addFile returns without waiting for any of it.  db.run and stmt.run
\* never throw for a statement that fails later, and extractVariableRefs
\* catches its own errors, so the catch with ROLLBACK is not entered.
QueueUpsert(emb) ==
    /\ queue' = queue \o AddFileStmts(cur.path, cur.text, emb)
    /\ pc' = "loop"
    /\ cur' = NoCur
    /\ UNCHANGED <<exVars, calcVars, patchVars, sessVars, disk, schema, docs, refs, cdocs, crefs, txn, proc, stack, handle,
                   passed, order, histVars>>

\* embed threw: addFile rejects, every processDirectory activation rejects,
\* main's catch calls process.exit(1); what is still queued never runs
RejectRun ==
    /\ proc' = "exit1"
    /\ stack' = <<>>
    /\ pc' = "loop"
    /\ cur' = NoCur
    /\ queue' = <<>>
    /\ docs' = cdocs
    /\ refs' = crefs
    /\ txn' = FALSE
    /\ up' = Abandon(up)
    /\ ran' = NoRan
    /\ UNCHANGED <<exVars, calcVars, patchVars, sessVars, disk, schema, cdocs, crefs, handle, passed, order, faults, runs,
                   uniqueHit>>

\* const emb = await embed(text) with an endpoint that answers
AddFileQueue ==
    /\ proc = "walking"
    /\ pc = "embed"
    /\ LET emb == embed(Response(TRUE, TRUE, Embedding[cur.text]))
       IN  /\ ~emb.threw
           /\ QueueUpsert(emb.value)
    /\ call' = [call EXCEPT !.outcome = "queued"]

\* const emb = await embed(text) with an endpoint that fails the request
EmbedFails ==
    /\ proc = "walking"
    /\ pc = "embed"
    /\ \E response \in FailedResponses :
          LET emb == embed(response)
          IN  /\ IF emb.threw THEN RejectRun ELSE QueueUpsert(emb.value)
              /\ call' = [call EXCEPT !.providerFailed = TRUE,
                                      !.outcome = IF emb.threw THEN "rejected" ELSE "queued"]

\* processDirectory returns; the outermost return ends main's try block
ReturnDir ==
    /\ proc = "walking"
    /\ pc = "loop"
    /\ Top.i > Len(ReadDir[Top.dir])
    /\ stack' = SubSeq(stack, 1, Len(stack) - 1)
    /\ proc' = IF Len(stack) = 1 THEN "draining" ELSE proc
    /\ UNCHANGED <<exVars, calcVars, patchVars, sessVars, disk, storeVars, pc, cur, handle, passed, order, call, histVars>>

\* nothing is queued any more and main has returned: the process ends; the
\* handle was never closed
ProcExit ==
    /\ proc = "draining"
    /\ queue = <<>>
    /\ proc' = "exit0"
    /\ docs' = cdocs
    /\ refs' = crefs
    /\ txn' = FALSE
    /\ up' = Abandon(up)
    /\ UNCHANGED <<exVars, calcVars, patchVars, sessVars, disk, schema, cdocs, crefs, queue, stack, pc, cur, handle, passed, order, call,
                   faults, runs, uniqueHit, ran>>

(***************************************************************************)
(* The store executes the statement at the head of the queue               *)
(***************************************************************************)
IsDML(s) == s.op \in {"DELETE_REFS", "DELETE_DOC", "INSERT_DOC", "INSERT_REF"}

UpAfterOk(s) ==
    CASE s.op = "BEGIN" ->
            [phase |-> "open", path |-> s.path, text |-> s.content, emb |-> s.embedding,
             pre |-> [docs |-> cdocs, refs |-> crefs], failed |-> FALSE, committed |-> FALSE]
      [] s.op = "COMMIT" /\ up.phase = "open" ->
            [up EXCEPT !.phase = "ended", !.committed = TRUE]
      [] OTHER -> up

UpAfterFail(s) ==
    CASE s.op = "BEGIN" -> NoUp
      [] s.op = "COMMIT" /\ up.phase = "open" ->
            [up EXCEPT !.phase = "ended", !.committed = FALSE, !.failed = TRUE]
      [] up.phase = "open" /\ s.op # "BEGIN" /\ s.op # "COMMIT" ->
            [up EXCEPT !.failed = TRUE]
      [] OTHER -> up

ExecOk ==
    /\ LoopIdle
    /\ queue # <<>>
    /\ LET s == Head(queue)
       IN  /\ Executable(s)
           /\ schema' = SchemaAfter(s)
           /\ docs' = DocsAfter(s)
           /\ refs' = RefsAfter(s)
           /\ txn' = TxnAfter(s)
           \* COMMIT makes the transaction durable; outside a transaction
           \* every statement commits by itself
           /\ cdocs' = IF s.op = "COMMIT" \/ (~txn /\ IsDML(s)) THEN docs' ELSE cdocs
           /\ crefs' = IF s.op = "COMMIT" \/ (~txn /\ IsDML(s)) THEN refs' ELSE crefs
           /\ up' = UpAfterOk(s)
           /\ ran' = [op |-> s.op, path |-> s.path]
    /\ queue' = Tail(queue)
    /\ UNCHANGED <<exVars, calcVars, patchVars, sessVars, disk, walkVars, faults, runs, uniqueHit>>

\* the statement fails: the engine rejects it, or the environment fails it
Fails(s) ==
    /\ LoopIdle
    /\ queue # <<>>
    /\ s = Head(queue)
    /\ \/ ~Executable(s) /\ faults' = faults
       \/ Executable(s) /\ faults < MaxFaults /\ faults' = faults + 1
    /\ uniqueHit' = (uniqueHit \/ (s.op = "INSERT_DOC" /\ "docs" \in schema /\ UniqueViolation(s)))

\* No callback was passed, so the failure is raised as an 'error' event on
\* the statement, which has no listener.  In a host that survives the event
\* (an uncaughtException handler) the queue goes on with the next statement:
\* the failed statement has no effect and the transaction stays open.
ExecFailSurvive ==
    /\ \E s \in {Head(queue) : x \in IF queue # <<>> THEN {1} ELSE {}} :
          /\ Fails(s)
          /\ up' = UpAfterFail(s)
          /\ ran' = [op |-> s.op, path |-> s.path]
    /\ queue' = Tail(queue)
    /\ UNCHANGED <<exVars, calcVars, patchVars, sessVars, disk, schema, docs, refs, cdocs, crefs, txn, walkVars, runs>>

\* In the default host the unhandled 'error' event ends the process: the
\* rest of the queue never runs and the open transaction is discarded.
ExecFailCrash ==
    /\ \E s \in {Head(queue) : x \in IF queue # <<>> THEN {1} ELSE {}} :
          /\ Fails(s)
          /\ up' = Abandon(UpAfterFail(s))
    /\ proc' = "crashed"
    /\ stack' = <<>>
    /\ pc' = "loop"
    /\ cur' = NoCur
    /\ queue' = <<>>
    /\ docs' = cdocs
    /\ refs' = crefs
    /\ txn' = FALSE
    /\ ran' = NoRan
    /\ UNCHANGED <<exVars, calcVars, patchVars, sessVars, disk, schema, cdocs, crefs, handle, passed, order, call, runs>>

(***************************************************************************)
(* cosineSim and search (scripts/contextExtractor.js)                      *)
(***************************************************************************)
\* math.dot(a, b)
Dot(a, b) ==
    LET F[i \in 0..Len(a)] == IF i = 0 THEN 0 ELSE F[i - 1] + a[i] * b[i]
    IN  F[Len(a)]

\* math.norm(a) squared
Norm2(a) == Dot(a, a)

\* cosineSim(a, b) = dot / (normA * normB), kept as the numerator and the
\* square of the denominator.  A zero norm makes it 0 / 0, which is NaN.
\* Over the vectors of the model two scores of one query are equal as
\* reals exactly when the doubles are equal, so comparing them as reals
\* orders them as JavaScript does.
cosineSim(a, b) == [dot |-> Dot(a, b), den2 |-> Norm2(a) * Norm2(b)]

IsNaN(score) == score.den2 = 0

(***************************************************************************)
(* JavaScript numbers: IEEE 754 binary64 with round to nearest, ties to    *)
(* even.  A natural number of any size is the sequence of its digits in    *)
(* base 8192, lowest first, without leading zeros; zero is <<>>.           *)
(***************************************************************************)
RECURSIVE BigOfNat(_)
BigOfNat(n) == IF n = 0 THEN <<>> ELSE <<n % 8192>> \o BigOfNat(n \div 8192)

Limb(x, i) == IF i \in DOMAIN x THEN x[i] ELSE 0

RECURSIVE Trim(_)
Trim(x) ==
    IF x = <<>> THEN <<>>
    ELSE IF x[Len(x)] = 0 THEN Trim(SubSeq(x, 1, Len(x) - 1)) ELSE x

BigAdd(x, y) ==
    LET n == (IF Len(x) > Len(y) THEN Len(x) ELSE Len(y)) + 1
        C[i \in 0..n] == IF i = 0 THEN 0 ELSE (Limb(x, i) + Limb(y, i) + C[i - 1]) \div 8192
    IN  Trim([i \in 1..n |-> (Limb(x, i) + Limb(y, i) + C[i - 1]) % 8192])

\* x - y for x >= y
BigSub(x, y) ==
    LET n == Len(x)
        B[i \in 0..n] == IF i = 0 THEN 0 ELSE IF Limb(x, i) - Limb(y, i) - B[i - 1] < 0 THEN 1 ELSE 0
    IN  Trim([i \in 1..n |-> (Limb(x, i) - Limb(y, i) - B[i - 1] + 8192) % 8192])

BigLess(x, y) ==
    \/ Len(x) < Len(y)
    \/ /\ Len(x) = Len(y)
       /\ \E i \in DOMAIN x : x[i] < y[i] /\ \A j \in (i + 1)..Len(x) : x[j] = y[j]

\* x * s for a digit s
BigMulSmall(x, s) ==
    LET n == Len(x) + 1
        C[i \in 0..n] == IF i = 0 THEN 0 ELSE (Limb(x, i) * s + C[i - 1]) \div 8192
    IN  Trim([i \in 1..n |-> (Limb(x, i) * s + C[i - 1]) % 8192])

RECURSIVE BigMul(_, _)
BigMul(x, y) ==
    IF y = <<>> THEN <<>>
    ELSE LET rest == BigMul(x, Tail(y))
         IN  BigAdd(BigMulSmall(x, y[1]), IF rest = <<>> THEN <<>> ELSE <<0>> \o rest)

\* x * 2^k
BigShl(x, k) ==
    IF x = <<>> THEN <<>>
    ELSE [i \in 1..(k \div 13) |-> 0] \o BigMulSmall(x, 2 ^ (k % 13))

\* bit i of x, bit 0 the lowest
Bit(x, i) == (Limb(x, (i \div 13) + 1) \div (2 ^ (i % 13))) % 2

BitLen(x) ==
    IF x = <<>> THEN 0
    ELSE 13 * (Len(x) - 1) + (CHOOSE n \in 1..13 : 2 ^ (n - 1) <= x[Len(x)] /\ x[Len(x)] < 2 ^ n)

\* the number made of the n bits of x from bit lo upwards
BitsOf(x, lo, n) ==
    LET D[b \in 0..13, j \in 0..(n \div 13)] ==
            IF b = 13 \/ 13 * j + b >= n THEN 0
            ELSE Bit(x, lo + 13 * j + b) + 2 * D[b + 1, j]
    IN  Trim([j \in 1..((n \div 13) + 1) |-> D[0, j - 1]])

\* n more digits of base 32 of a long division by d: st.q holds the digits
\* found so far and st.rem < d the remainder
RECURSIVE DivDigits(_, _, _)
DivDigits(d, n, st) ==
    IF n = 0 THEN st
    ELSE IF st.rem = <<>> THEN [q |-> BigShl(st.q, 5 * n), rem |-> <<>>]
    ELSE LET rem2 == BigMulSmall(st.rem, 32)
             c == Cardinality({k \in 1..31 : ~BigLess(rem2, BigMulSmall(d, k))})
         IN  DivDigits(d, n - 1, [q |-> BigAdd(BigMulSmall(st.q, 32), BigOfNat(c)),
                                  rem |-> BigSub(rem2, BigMulSmall(d, c))])

\* n more digits of base 32 of a square root: st.r holds the digits found
\* so far and st.rem what is left of the radicand; the digit c is the
\* largest with c * (64 * r + c) <= 1024 * rem
RECURSIVE SqrtDigits(_, _)
SqrtDigits(n, st) ==
    IF n = 0 THEN st
    ELSE IF st.rem = <<>> THEN [r |-> BigShl(st.r, 5 * n), rem |-> <<>>]
    ELSE LET rem2 == BigMulSmall(st.rem, 1024)
             Taken(k) == BigMulSmall(BigAdd(BigMulSmall(st.r, 64), BigOfNat(k)), k)
             c == Cardinality({k \in 1..31 : ~BigLess(rem2, Taken(k))})
         IN  SqrtDigits(n - 1, [r |-> BigAdd(BigMulSmall(st.r, 32), BigOfNat(c)),
                                rem |-> BigSub(rem2, Taken(c))])

\* a finite double is sign * m * 2^e with m = <<>> for zero and otherwise
\* 2^52 <= m < 2^53; the numbers of the model are far from the subnormals
Zero64 == [nan |-> FALSE, sign |-> 0, m |-> <<>>, e |-> 0]

\* sign * x * 2^e rounded to 53 bits, to nearest, ties to even; x > 0
Round64(sign, x, e) ==
    LET len == BitLen(x)
        sh == len - 53
        q == BitsOf(x, sh, 53)
        roundUp == Bit(x, sh - 1) = 1 /\ (BitsOf(x, 0, sh - 1) # <<>> \/ Bit(x, sh) = 1)
        m1 == IF roundUp THEN BigAdd(q, <<1>>) ELSE q
    IN  IF len <= 53
        THEN [nan |-> FALSE, sign |-> sign, m |-> BigShl(x, 53 - len), e |-> e - (53 - len)]
        ELSE IF BitLen(m1) = 54
             THEN [nan |-> FALSE, sign |-> sign, m |-> BigShl(<<1>>, 52), e |-> e + sh + 1]
             ELSE [nan |-> FALSE, sign |-> sign, m |-> m1, e |-> e + sh]

\* Math.sqrt(n) for a natural number n: the integer part of the root, 55
\* bits behind it, and a sticky bit for what is left
Sqrt64(n) ==
    IF n = 0 THEN Zero64
    ELSE LET r0 == CHOOSE r \in 0..n : r * r <= n /\ n < (r + 1) * (r + 1)
             st == SqrtDigits(11, [r |-> BigOfNat(r0), rem |-> BigOfNat(n - r0 * r0)])
             sticky == IF st.rem = <<>> THEN <<>> ELSE <<1>>
         IN  Round64(1, BigAdd(BigAdd(st.r, st.r), sticky), -56)

\* a * b
Mul64(a, b) ==
    IF a.nan \/ b.nan THEN [Zero64 EXCEPT !.nan = TRUE]
    ELSE IF a.sign = 0 \/ b.sign = 0 THEN Zero64
    ELSE Round64(a.sign * b.sign, BigMul(a.m, b.m), a.e + b.e)

\* n / d for an integer n and a double d >= 0: 0 / 0 is NaN.  110 bits of
\* the quotient of |n| by the 53 bits of d, and a sticky bit for the
\* remainder
Div64(n, d) ==
    IF d.nan \/ (d.sign = 0 /\ n = 0) THEN [Zero64 EXCEPT !.nan = TRUE]
    ELSE IF n = 0 THEN Zero64
    ELSE LET abs == IF n < 0 THEN -n ELSE n
             st == DivDigits(d.m, 22, [q |-> <<>>, rem |-> BigOfNat(abs)])
             sticky == IF st.rem = <<>> THEN <<>> ELSE <<1>>
         IN  Round64(IF n < 0 THEN -1 ELSE 1, BigAdd(BigAdd(st.q, st.q), sticky), -111 - d.e)

\* the double is 1
IsOne64(x) == ~x.nan /\ x.sign = 1 /\ x.m = BigShl(<<1>>, 52) /\ x.e = -52

\* -1 <= x <= 1
InUnitRange64(x) ==
    /\ ~x.nan
    /\ x.sign # 0 => (x.e < -52 \/ (x.e = -52 /\ x.m = BigShl(<<1>>, 52)))

\* cosineSim(a, b) as the doubles give it: math.dot(a, b) is exact for the
\* vectors of the model, math.norm is the rounded root of the exact sum of
\* squares, the product and the quotient are rounded once each
cosineSim64(a, b) == Div64(Dot(a, b), Mul64(Sqrt64(Norm2(a)), Sqrt64(Norm2(b))))

\* s1 > s2 for two scores that are numbers
ScoreGT(s1, s2) ==
    CASE s1.dot >= 0 /\ s2.dot < 0 -> TRUE
      [] s1.dot < 0 /\ s2.dot >= 0 -> FALSE
      [] s1.dot >= 0 /\ s2.dot >= 0 ->
            s1.dot * s1.dot * s2.den2 > s2.dot * s2.dot * s1.den2
      [] OTHER -> s1.dot * s1.dot * s2.den2 < s2.dot * s2.dot * s1.den2

\* s1 >= s2 as JavaScript evaluates it: false when either is NaN
ScoreGE(s1, s2) == ~IsNaN(s1) /\ ~IsNaN(s2) /\ ~ScoreGT(s2, s1)

\* the order in which GROUP BY d.path hands the rows over: by path
PathRank ==
    [p \in {"lib/b.ts", "v.tsx", "z.js"} |->
        CASE p = "lib/b.ts" -> 1
          [] p = "v.tsx" -> 2
          [] p = "z.js" -> 3]

\* the document rows in the order GROUP BY d.path hands them over
RECURSIVE RowsByPath(_)
RowsByPath(rows) ==
    IF rows = {} THEN <<>>
    ELSE LET first == CHOOSE r \in rows : \A o \in rows : PathRank[r.path] <= PathRank[o.path]
         IN  <<first>> \o RowsByPath(rows \ {first})

\* reference rows in rowid order
RECURSIVE RowsById(_)
RowsById(rows) ==
    IF rows = {} THEN <<>>
    ELSE LET first == CHOOSE r \in rows : \A o \in rows : r.id <= o.id
         IN  <<first>> \o RowsById(rows \ {first})

\* property names every object inherits from Object.prototype
ObjectPrototypeNames ==
    {"constructor", "toString", "toLocaleString", "valueOf", "hasOwnProperty",
     "isPrototypeOf", "propertyIsEnumerable", "__proto__", "__defineGetter__",
     "__defineSetter__", "__lookupGetter__", "__lookupSetter__"}

\* json_group_array over the LEFT JOIN: the path's reference rows, or one
\* element of nulls when the path has none
VarsOf(rowsRefs, p) ==
    LET mine == RowsById({r \in rowsRefs : r.file_path = p})
    IN  IF mine = <<>>
        THEN <<[name |-> NULL, line |-> NULL, type |-> NULL, source |-> NULL]>>
        ELSE [i \in 1..Len(mine) |->
                [name |-> mine[i].variable_name, line |-> mine[i].line_number,
                 type |-> mine[i].ref_type, source |-> mine[i].source_path]]

\* a reduce that only skips empty names
Aggregate_NoPrototypeFilter(vs) ==
    LET kept == {i \in DOMAIN vs : vs[i].name \notin {NULL, ""}}
        Occ(name) ==
            LET F[i \in 0..Len(vs)] ==
                    IF i = 0 THEN <<>>
                    ELSE IF i \in kept /\ vs[i].name = name
                         THEN Append(F[i - 1], [line |-> vs[i].line, type |-> vs[i].type,
                                                source |-> vs[i].source])
                         ELSE F[i - 1]
            IN  F[Len(vs)]
    IN  [name \in {vs[i].name : i \in kept} |-> Occ(name)]

\* the reduce of search: name -> occurrences, skipping empty names and names
\* found on Object.prototype
Aggregate(vs) ==
    LET kept == {i \in DOMAIN vs : vs[i].name \notin ({NULL, ""} \cup ObjectPrototypeNames)}
        Occ(name) ==
            LET F[i \in 0..Len(vs)] ==
                    IF i = 0 THEN <<>>
                    ELSE IF i \in kept /\ vs[i].name = name
                         THEN Append(F[i - 1], [line |-> vs[i].line, type |-> vs[i].type,
                                                source |-> vs[i].source])
                         ELSE F[i - 1]
            IN  F[Len(vs)]
    IN  [name \in {vs[i].name : i \in kept} |-> Occ(name)]

\* rows.map(...) of the db.all callback
Scored(rowsDocs, rowsRefs, q) ==
    LET rows == RowsByPath(rowsDocs)
    IN  [i \in 1..Len(rows) |->
            [path |-> rows[i].path, content |-> rows[i].content,
             variables |-> Aggregate(VarsOf(rowsRefs, rows[i].path)),
             score |-> cosineSim(q, JSONparse(rows[i].embedding))]]

\* a descending sort that is not stable: an element goes in front of the
\* elements it compares equal to
StableSortDesc_Unstable(seq) ==
    LET Insert(sorted, x) ==
            LET pos == Cardinality({j \in DOMAIN sorted : ScoreGT(sorted[j].score, x.score)})
            IN  SubSeq(sorted, 1, pos) \o <<x>> \o SubSeq(sorted, pos + 1, Len(sorted))
        F[i \in 0..Len(seq)] == IF i = 0 THEN <<>> ELSE Insert(F[i - 1], seq[i])
    IN  F[Len(seq)]

\* Array.prototype.sort with (a, b) => b.score - a.score on numbers: stable,
\* descending
StableSortDesc(seq) ==
    LET Insert(sorted, x) ==
            LET pos == Cardinality({j \in DOMAIN sorted : ~ScoreGT(x.score, sorted[j].score)})
            IN  SubSeq(sorted, 1, pos) \o <<x>> \o SubSeq(sorted, pos + 1, Len(sorted))
        F[i \in 0..Len(seq)] == IF i = 0 THEN <<>> ELSE Insert(F[i - 1], seq[i])
    IN  F[Len(seq)]

Orderings(seq) ==
    {[i \in DOMAIN seq |-> seq[f[i]]] :
        f \in {g \in [DOMAIN seq -> DOMAIN seq] : \A i, j \in DOMAIN seq : g[i] = g[j] => i = j}}

\* With a NaN score the comparator answers NaN for some pairs and is not a
\* consistent comparator: the order sort leaves is implementation-defined.
SortOutcomes(seq) ==
    IF \E i \in DOMAIN seq : IsNaN(seq[i].score)
    THEN Orderings(seq)
    ELSE {StableSortDesc(seq)}

\* Array.prototype.slice(0, k)
Slice0(seq, k) ==
    LET n == Len(seq)
        end == IF k < 0 THEN (IF n + k < 0 THEN 0 ELSE n + k) ELSE (IF k > n THEN n ELSE k)
    IN  SubSeq(seq, 1, end)

\* a query without GROUP BY: the aggregate answers an empty table with one
\* row of nulls
SearchOutcomes_NoGroupBy(rowsDocs, rowsRefs, q, k) ==
    LET nullRow == [path |-> NULL, content |-> NULL,
                    variables |-> Aggregate(VarsOf({}, NULL)),
                    score |-> [dot |-> 0, den2 |-> 0]]
        scored == IF rowsDocs = {} THEN <<nullRow>> ELSE Scored(rowsDocs, rowsRefs, q)
    IN  {Slice0(sorted, k) : sorted \in SortOutcomes(scored)}

\* what search may resolve with
SearchOutcomes(rowsDocs, rowsRefs, q, k) ==
    {Slice0(sorted, k) : sorted \in SortOutcomes(Scored(rowsDocs, rowsRefs, q))}

(***************************************************************************)
(* Calls that own a store handle: search called on a handle of initDB,     *)
(* askQwen, and main of scripts/generateReview.js                          *)
(***************************************************************************)
\* vectors the embedding provider answers a query with
QueryVectors == {<<1, 0>>, <<0, 1>>, <<1, 1>>, <<0, 0>>}

\* largest k a caller passes to search
MaxK == 4

\* calls made one after the other
MaxSessions == 2

\* reviewable files in the payload of generateReview
MaxReviewFiles == 2

\* rolling context entries counted
MaxTurns == 2

\* search(db, query, k = 5)
DefaultK == 5

\* search(db, diff, 3) in generateReviewForFile
ReviewK == 3

\* let currentContext = null
NullContext == [set |-> FALSE, base |-> <<>>, turns |-> 0]

\* no search of the running call has resolved yet
NoLast == [input |-> <<>>, k |-> 0, results |-> <<>>, same |-> FALSE, before |-> <<>>]

SessEnded == sess.pc \in {"none", "resolved", "rejected", "exit0", "exit1"}

\* the process is gone after process.exit
ProcessGone == sess.pc \in {"exit0", "exit1"}

\* const db = initDB(); search(db, query, k) by a caller of the module
StartSearch(k) ==
    /\ SessEnded
    /\ ProcEnded
    /\ sessions < MaxSessions
    /\ sess' = [kind |-> "search", pc |-> "embed", k |-> k, refresh |-> FALSE, left |-> 0, embedFailed |-> FALSE]
    /\ handle' = "open"
    /\ queue' = InitDBStmts
    /\ qEmb' = <<>>
    /\ results' = <<>>
    /\ currentContext' = IF ProcessGone THEN NullContext ELSE currentContext
    /\ sessions' = sessions + 1
    /\ last' = NoLast
    /\ UNCHANGED <<exVars, calcVars, patchVars, disk, schema, docs, refs, cdocs, crefs, txn,
                   proc, stack, pc, cur, passed, order, call, histVars>>

\* askQwen(query, refreshContext): initDB, then search(db, query) with k = 5
StartAskQwen(refreshContext) ==
    /\ SessEnded
    /\ ProcEnded
    /\ sessions < MaxSessions
    /\ sess' = [kind |-> "askQwen", pc |-> "embed", k |-> DefaultK, refresh |-> refreshContext, left |-> 0,
                embedFailed |-> FALSE]
    /\ handle' = "open"
    /\ queue' = InitDBStmts
    /\ qEmb' = <<>>
    /\ results' = <<>>
    /\ currentContext' = IF ProcessGone THEN NullContext ELSE currentContext
    /\ sessions' = sessions + 1
    /\ last' = NoLast
    /\ UNCHANGED <<exVars, calcVars, patchVars, disk, schema, docs, refs, cdocs, crefs, txn,
                   proc, stack, pc, cur, passed, order, call, histVars>>

\* generateReview main: db = null, then the payload is read
StartReview ==
    /\ SessEnded
    /\ ProcEnded
    /\ sessions < MaxSessions
    /\ sess' = [kind |-> "review", pc |-> "read", k |-> ReviewK, refresh |-> FALSE, left |-> 0, embedFailed |-> FALSE]
    /\ handle' = "none"
    /\ qEmb' = <<>>
    /\ results' = <<>>
    /\ currentContext' = NullContext
    /\ sessions' = sessions + 1
    /\ last' = NoLast
    /\ UNCHANGED <<exVars, calcVars, patchVars, disk, storeVars, proc, stack, pc, cur, passed, order, call, histVars>>

\* readFileSync or JSON.parse of the payload throws: catch, process.exit(1)
ReviewReadFails ==
    /\ sess.kind = "review"
    /\ sess.pc = "read"
    /\ sess' = [sess EXCEPT !.pc = "exit1"]
    /\ UNCHANGED <<exVars, calcVars, patchVars, disk, storeVars, walkVars, histVars, qEmb, results, currentContext, sessions, last>>

\* where main goes after the review of one file: the next file, or the
\* write of the output file
NextFilePc(left) == IF left > 0 THEN "embed" ELSE "write"

\* db = initDB(); the loop over payload.diff.byFile starts
ReviewInitDB(n) ==
    /\ sess.kind = "review"
    /\ sess.pc = "read"
    /\ handle' = "open"
    /\ queue' = InitDBStmts
    /\ sess' = [sess EXCEPT !.left = n, !.pc = NextFilePc(n)]
    /\ UNCHANGED <<exVars, calcVars, patchVars, disk, schema, docs, refs, cdocs, crefs, txn,
                   proc, stack, pc, cur, passed, order, call, histVars, qEmb, results, currentContext, sessions, last>>

\* search: const qEmb = await embed(query) with an endpoint that answers
SearchEmbedOk(v) ==
    /\ sess.pc = "embed"
    /\ LET emb == embed(Response(TRUE, TRUE, v))
       IN  /\ ~emb.threw
           /\ qEmb' = emb.value
    /\ results' = <<>>
    /\ sess' = [sess EXCEPT !.pc = "rows", !.embedFailed = FALSE]
    /\ UNCHANGED <<exVars, calcVars, patchVars, disk, storeVars, walkVars, histVars, currentContext, sessions, last>>

\* a search that swallows the failure and resolves with nothing
AfterSearchRejects_ResolvesEmpty ==
    IF sess.kind = "review"
    THEN [sess EXCEPT !.pc = "fetch"]
    ELSE [sess EXCEPT !.pc = "resolved"]

\* how a rejected search ends for its caller: search and askQwen reject,
\* generateReviewForFile catches and main goes on with the next file
AfterSearchRejects ==
    IF sess.kind = "review"
    THEN [sess EXCEPT !.left = @ - 1, !.pc = NextFilePc(sess.left - 1)]
    ELSE [sess EXCEPT !.pc = "rejected"]

\* search: await embed(query) with an endpoint that fails the request: the
\* promise of search rejects before db.all is called
SearchEmbedFails ==
    /\ sess.pc = "embed"
    /\ \E response \in FailedResponses :
          LET emb == embed(response)
          IN  IF emb.threw
              THEN /\ sess' = [AfterSearchRejects EXCEPT !.embedFailed = TRUE]
                   /\ UNCHANGED <<qEmb, results>>
              ELSE /\ qEmb' = emb.value
                   /\ results' = <<>>
                   /\ sess' = [sess EXCEPT !.pc = "rows", !.embedFailed = TRUE]
    /\ UNCHANGED <<exVars, calcVars, patchVars, disk, storeVars, walkVars, histVars, currentContext, sessions, last>>

\* db.all calls back with err
SearchDbError ==
    /\ sess.pc = "rows"
    /\ queue = <<>>
    /\ sess' = AfterSearchRejects
    /\ UNCHANGED <<exVars, calcVars, patchVars, disk, storeVars, walkVars, histVars, qEmb, results, currentContext, sessions, last>>

\* db.all calls back with the rows: score, sort, slice, resolve
SearchResolves ==
    /\ sess.pc = "rows"
    /\ queue = <<>>
    /\ LET input == Scored(docs, refs, qEmb)
           again == last.input = input /\ last.k = sess.k
       IN  /\ results' \in SearchOutcomes(docs, refs, qEmb, sess.k)
           \* sort is an algorithm of the engine: handed the same array and
           \* the same inconsistent comparator, it leaves the order it left
           \* the time before
           /\ (again /\ \E i \in DOMAIN input : IsNaN(input[i].score)) => results' = last.results
           /\ last' = [input |-> input, k |-> sess.k, results |-> results', same |-> again,
                       before |-> IF again THEN last.results ELSE <<>>]
    /\ sess' = [sess EXCEPT !.pc =
                   CASE sess.kind = "search" -> "resolved"
                     [] sess.kind = "askQwen" ->
                            IF currentContext = NullContext \/ sess.refresh THEN "setup" ELSE "query"
                     [] sess.kind = "review" -> "fetch"]
    /\ UNCHANGED <<exVars, calcVars, patchVars, disk, storeVars, walkVars, histVars, qEmb, currentContext, sessions>>

\* the text askQwen builds from the results, by the paths it is made of
ContextText(res) == [i \in DOMAIN res |-> res[i].path]

\* askQwen: currentContext = await setupContext(contextText)
SetupContextOk ==
    /\ sess.pc = "setup"
    /\ currentContext' = [set |-> TRUE, base |-> ContextText(results), turns |-> 0]
    /\ sess' = [sess EXCEPT !.pc = "query"]
    /\ UNCHANGED <<exVars, calcVars, patchVars, disk, storeVars, walkVars, histVars, qEmb, results, sessions, last>>

\* setupContext throws: askQwen rejects, cleanup is not reached
SetupContextFails ==
    /\ sess.pc = "setup"
    /\ sess' = [sess EXCEPT !.pc = "rejected"]
    /\ UNCHANGED <<exVars, calcVars, patchVars, disk, storeVars, walkVars, histVars, qEmb, results, currentContext, sessions, last>>

\* askQwen: result = await queryOllama(query, currentContext);
\* currentContext = result.context
QueryOllamaOk ==
    /\ sess.pc = "query"
    /\ currentContext' =
          [currentContext EXCEPT !.turns = IF @ < MaxTurns THEN @ + 1 ELSE @]
    /\ sess' = [sess EXCEPT !.pc = "cleanup"]
    /\ UNCHANGED <<exVars, calcVars, patchVars, disk, storeVars, walkVars, histVars, qEmb, results, sessions, last>>

\* queryOllama throws: askQwen rejects, cleanup is not reached
QueryOllamaFails ==
    /\ sess.pc = "query"
    /\ sess' = [sess EXCEPT !.pc = "rejected"]
    /\ UNCHANGED <<exVars, calcVars, patchVars, disk, storeVars, walkVars, histVars, qEmb, results, currentContext, sessions, last>>

\* askQwen: await cleanup(db); db.close succeeds
CleanupOk ==
    /\ sess.pc = "cleanup"
    /\ handle' = "closed"
    /\ sess' = [sess EXCEPT !.pc = "resolved"]
    /\ UNCHANGED <<exVars, calcVars, patchVars, disk, storeVars, proc, stack, pc, cur, passed, order, call, histVars,
                   qEmb, results, currentContext, sessions, last>>

\* db.close calls back with err: cleanup rejects and so does askQwen
CleanupFails ==
    /\ sess.pc = "cleanup"
    /\ sess' = [sess EXCEPT !.pc = "rejected"]
    /\ UNCHANGED <<exVars, calcVars, patchVars, disk, storeVars, walkVars, histVars, qEmb, results, currentContext, sessions, last>>

\* generateReviewForFile after search: the model request and the parse of
\* its answer; every failure is caught and becomes a fallback review
ReviewFileDone ==
    /\ sess.kind = "review"
    /\ sess.pc = "fetch"
    /\ sess' = [sess EXCEPT !.left = @ - 1, !.pc = NextFilePc(sess.left - 1)]
    /\ UNCHANGED <<exVars, calcVars, patchVars, disk, storeVars, walkVars, histVars, qEmb, results, currentContext, sessions, last>>

\* main: writeFileSync, then process.exit(0) inside the try block; the
\* process ends there and the finally block with cleanup(db) is not run
ReviewExit0 ==
    /\ sess.kind = "review"
    /\ sess.pc = "write"
    /\ queue = <<>>
    /\ sess' = [sess EXCEPT !.pc = "exit0"]
    /\ UNCHANGED <<exVars, calcVars, patchVars, disk, storeVars, walkVars, histVars, qEmb, results, currentContext, sessions, last>>

\* writeFileSync throws: catch, process.exit(1); the finally block is not run
ReviewExit1 ==
    /\ sess.kind = "review"
    /\ sess.pc = "write"
    /\ queue = <<>>
    /\ sess' = [sess EXCEPT !.pc = "exit1"]
    /\ UNCHANGED <<exVars, calcVars, patchVars, disk, storeVars, walkVars, histVars, qEmb, results, currentContext, sessions, last>>

(***************************************************************************)
(* Specifications                                                          *)
(***************************************************************************)
IdleExtract ==
    /\ exSrc = [path |-> "z.js", content |-> Text(FALSE, {}, <<>>)]
    /\ exRefs = <<>>
    /\ exDone = FALSE

NoCs == [a |-> <<>>, b |-> <<>>, ab |-> Zero64, ba |-> Zero64, done |-> FALSE]

\* the patch writer has not been started
NoPw ==
    [pc |-> "idle", env |-> [AI_REVIEW_APPLY |-> "", AI_REVIEW_OPEN |-> "", CI |-> ""],
     input |-> [readable |-> FALSE, reviewsIsArray |-> FALSE, reviews |-> <<>>],
     reviews |-> <<>>, i |-> 0, j |-> 0, count |-> 0, combined |-> <<>>, individual |-> <<>>,
     files |-> {}, opened |-> FALSE, cmds |-> <<>>, tree |-> "clean", exit |-> -1]

IdleSession ==
    /\ sess = [kind |-> "none", pc |-> "none", k |-> 0, refresh |-> FALSE, left |-> 0,
               embedFailed |-> FALSE]
    /\ qEmb = <<>>
    /\ results = <<>>
    /\ currentContext = NullContext
    /\ sessions = 0
    /\ last = NoLast

IdleIndexer ==
    /\ disk = [p \in EligibleFiles |-> "A"]
    /\ schema = {}
    /\ docs = {}
    /\ refs = {}
    /\ cdocs = {}
    /\ crefs = {}
    /\ txn = FALSE
    /\ queue = <<>>
    /\ proc = "none"
    /\ stack = <<>>
    /\ pc = "loop"
    /\ cur = NoCur
    /\ handle = "none"
    /\ passed = {}
    /\ order = <<>>
    /\ call = NoCall
    /\ faults = 0
    /\ runs = 0
    /\ up = NoUp
    /\ uniqueHit = FALSE
    /\ ran = NoRan

\* a fresh checkout: no store file yet, any texts in the files
Init ==
    /\ IdleExtract
    /\ cs = NoCs
    /\ pw = NoPw
    /\ IdleIndexer
    /\ IdleSession

Next ==
    \/ \E p \in EligibleFiles : \E t \in TextsOf[p] : EditFile(p, t)
    \/ StartIndexer
    \/ Descend
    \/ SkipEntry
    \/ AddFileRead
    \/ AddFileQueue
    \/ EmbedFails
    \/ ReturnDir
    \/ ProcExit
    \/ ExecOk
    \/ ExecFailSurvive
    \/ ExecFailCrash

Spec == Init /\ [][Next]_vars

(***************************************************************************)
(* Properties of the upsert and of the tree run (specification Spec)       *)
(***************************************************************************)
UpsertEnded == up.phase = "ended"

RowsOf(rows, p) == {d \in rows : d.path = p}

C2_OneRowPerPath ==
    /\ \A d1, d2 \in docs : d1.path = d2.path => d1 = d2
    /\ \A d1, d2 \in cdocs : d1.path = d2.path => d1 = d2

\* the schema rejected a second row for a path the caller had failed to delete
C2_Witness ==
    /\ uniqueHit
    /\ UpsertEnded
    /\ up.committed
    /\ RowsOf(up.pre.docs, up.path) # {}

C6_RunPassesEveryFile ==
    proc \in {"exit0", "exit1", "crashed"} => passed = EligibleFiles

(***************************************************************************)
(* Properties of extractVariableRefs (specification SpecExtract)           *)
(***************************************************************************)
\* an identifier in this position is part of a declaration: the id of a
\* declarator, the binding of an import specifier, or a child of a node
\* whose type is a ...Declaration
DeclarationSite(parentType) ==
    \/ TypeIncludesDeclaration(parentType)
    \/ parentType \in {"VariableDeclarator", "ImportSpecifier"}

\* the identifier occurrences of a tree that are not part of a declaration
RECURSIVE UsageSites(_, _)
UsageSites(node, parentType) ==
    LET own == IF node.type = "Identifier" /\ ~DeclarationSite(parentType)
               THEN <<[name |-> node.name, line |-> node.line]>>
               ELSE <<>>
        below[i \in 0..Len(node.kids)] ==
            IF i = 0 THEN <<>> ELSE below[i - 1] \o UsageSites(node.kids[i], node.type)
    IN  own \o below[Len(node.kids)]

CountIn(seq, x) == Cardinality({i \in DOMAIN seq : seq[i] = x})

SameBag(s1, s2) ==
    \A x \in {s1[i] : i \in DOMAIN s1} \cup {s2[i] : i \in DOMAIN s2} :
        CountIn(s1, x) = CountIn(s2, x)

UsageRefsOf(seq) ==
    LET F[i \in 0..Len(seq)] ==
            IF i = 0 THEN <<>>
            ELSE IF seq[i].type = "usage"
                 THEN Append(F[i - 1], [name |-> seq[i].name, line |-> seq[i].line])
                 ELSE F[i - 1]
    IN  F[Len(seq)]

\* C8: the usage references of a parsed file are exactly its identifier
\* occurrences that are not part of a declaration, one per occurrence.
C8_UsageOnlyOutsideDeclarations ==
    (exDone /\ ParseOk(exSrc.content, exSrc.path))
    => SameBag(UsageRefsOf(exRefs),
               UsageSites(FileNode(exSrc.content.body), ""))

\* the bindings the import declarations of a program introduce: the local
\* name, the line of the specifier and the module the declaration names
ImportBindings(body) ==
    LET Of(stmt) ==
            IF stmt.type # "ImportDeclaration" THEN <<>>
            ELSE LET module == (CHOOSE k \in {stmt.kids[i] : i \in DOMAIN stmt.kids} :
                                    k.type = "StringLiteral").value
                     specs == SelectSeq(stmt.kids, LAMBDA k : k.type = "ImportSpecifier")
                 IN  [i \in DOMAIN specs |->
                        [name |-> specs[i].kids[2].name, line |-> specs[i].line,
                         source |-> module]]
        F[i \in 0..Len(body)] == IF i = 0 THEN <<>> ELSE F[i - 1] \o Of(body[i])
    IN  F[Len(body)]

ImportRefsOf(seq) ==
    LET F[i \in 0..Len(seq)] ==
            IF i = 0 THEN <<>>
            ELSE IF seq[i].type = "import"
                 THEN Append(F[i - 1], [name |-> seq[i].name, line |-> seq[i].line,
                                        source |-> seq[i].source])
                 ELSE F[i - 1]
    IN  F[Len(seq)]

\* C20: the import references of a parsed file are exactly the bindings of
\* its import declarations, one per binding: named by the local name, at
\* the specifier's line, with the declaration's module as source.
C20_OneImportRefPerBinding ==
    (exDone /\ ParseOk(exSrc.content, exSrc.path))
    => /\ SameBag(ImportRefsOf(exRefs), ImportBindings(exSrc.content.body))
       /\ \A i \in DOMAIN exRefs : exRefs[i].filePath = exSrc.path

\* a program with `import { a as b } from "y"` was extracted
C20_Witness ==
    /\ exDone
    /\ ParseOk(exSrc.content, exSrc.path)
    /\ \E i \in DOMAIN exRefs :
          exRefs[i].type = "import" /\ exRefs[i].name = "b" /\ exRefs[i].source = "y"
    /\ \E i \in DOMAIN exSrc.content.body :
          exSrc.content.body[i] = ImportListStmt(<< <<"a", "b">> >>, "y", i)

\* the named bindings the export declarations of a program introduce: the
\* declarators of an exported variable declaration and the name of an
\* exported function or class declaration, each at the declaration's line
ExportBindings(body) ==
    LET Of(stmt) ==
            IF stmt.type # "ExportNamedDeclaration" \/ stmt.kids = <<>> THEN <<>>
            ELSE LET declaration == stmt.kids[1]
                 IN  CASE declaration.type = "VariableDeclaration" ->
                            [i \in DOMAIN declaration.kids |->
                                [name |-> declaration.kids[i].kids[1].name,
                                 line |-> declaration.line]]
                       [] declaration.type \in {"FunctionDeclaration", "ClassDeclaration"} ->
                            <<[name |-> declaration.kids[1].name, line |-> declaration.line]>>
                       [] OTHER -> <<>>
        F[i \in 0..Len(body)] == IF i = 0 THEN <<>> ELSE F[i - 1] \o Of(body[i])
    IN  F[Len(body)]

ExportRefsOf(seq) ==
    LET F[i \in 0..Len(seq)] ==
            IF i = 0 THEN <<>>
            ELSE IF seq[i].type = "export"
                 THEN Append(F[i - 1], [name |-> seq[i].name, line |-> seq[i].line])
                 ELSE F[i - 1]
    IN  F[Len(seq)]

\* C21: the export references of a parsed file are exactly the named
\* bindings of its export declarations (exported variables, functions and
\* classes), one per binding, at the declaration's line.
C21_OneExportRefPerBinding ==
    (exDone /\ ParseOk(exSrc.content, exSrc.path))
    => SameBag(ExportRefsOf(exRefs), ExportBindings(exSrc.content.body))

InitExtract ==
    /\ exSrc \in [path : {"z.js", "v.tsx"},
                  content :
                      {Text(TRUE, {}, body) : body \in UNION {ProgramsOfLen(n) : n \in 0..MaxStmts}}
                      \cup {Text(FALSE, {}, <<>>), Text(FALSE, {}, <<ImportStmt("a", "x", 1)>>),
                            Text(TRUE, {"typescript"}, <<ConstStmt("a", 1)>>)}]
    /\ exRefs = <<>>
    /\ exDone = FALSE
    /\ cs = NoCs
    /\ pw = NoPw
    /\ IdleIndexer
    /\ IdleSession

Extract ==
    /\ ~exDone
    /\ exRefs' = extractVariableRefs(exSrc.content, exSrc.path)
    /\ exDone' = TRUE
    /\ UNCHANGED <<exSrc, calcVars, patchVars, disk, storeVars, walkVars, histVars, sessVars>>

NextExtract == Extract

SpecExtract == InitExtract /\ [][NextExtract]_vars

(***************************************************************************)
(* SpecRetrieve: the calls that read the store, against every store an     *)
(* earlier indexing of up to three files may have left                     *)
(***************************************************************************)
SearchPaths == {"lib/b.ts", "v.tsx", "z.js"}

\* vectors found in the embedding column of each path: the one the provider
\* gave for its text, or the zero vector
StoredVectors ==
    [p \in SearchPaths |->
        CASE p = "lib/b.ts" -> {<<1, 1>>, <<0, 0>>}
          [] p = "v.tsx" -> {<<0, 1>>, <<0, 0>>}
          [] p = "z.js" -> {<<1, 0>>, <<0, 0>>}]

\* the texts a path may have been indexed with
IndexedTexts ==
    [p \in SearchPaths |->
        CASE p = "lib/b.ts" -> {"bad", "P"}
          [] p = "v.tsx" -> {"B"}
          [] p = "z.js" -> {"A"}]

\* the store after the paths of present were indexed in path order, each
\* with its text and the vector the provider gave for it
RECURSIVE IndexedStore(_, _, _)
IndexedStore(present, txt, emb) ==
    IF present = {} THEN [docs |-> {}, refs |-> {}]
    ELSE LET p == CHOOSE x \in present : \A y \in present : PathRank[x] >= PathRank[y]
             before == IndexedStore(present \ {p}, txt, emb)
             extracted == extractVariableRefs(TextOf[txt[p]], p)
             base == IF before.refs = {} THEN 0
                     ELSE CHOOSE m \in {r.id : r \in before.refs} : \A r \in before.refs : r.id <= m
         IN  [docs |-> before.docs \cup
                        {DocRow(NextId(before.docs), p, txt[p], JSONstringify(emb[p]))},
              refs |-> before.refs \cup
                        {RefRow(base + i, BindRef(extracted[i])) : i \in DOMAIN extracted}]

InitRetrieve ==
    /\ IdleExtract
    /\ cs = NoCs
    /\ pw = NoPw
    /\ disk = [p \in EligibleFiles |-> "A"]
    /\ schema = {"docs", "variable_refs", "idx_var_name", "idx_file_path"}
    /\ \E present \in SUBSET SearchPaths :
       \E emb \in [SearchPaths -> QueryVectors] :
       \E txt \in [SearchPaths -> DOMAIN TextOf] :
          /\ \A p \in SearchPaths : txt[p] \in IndexedTexts[p] /\ emb[p] \in StoredVectors[p]
          /\ \A p \in SearchPaths \ present :
                emb[p] = <<0, 0>> /\ txt[p] = CHOOSE t \in IndexedTexts[p] : TRUE
          /\ docs = IndexedStore(present, txt, emb).docs
          /\ refs = IndexedStore(present, txt, emb).refs
    /\ cdocs = docs
    /\ crefs = refs
    /\ txn = FALSE
    /\ queue = <<>>
    /\ proc = "none"
    /\ stack = <<>>
    /\ pc = "loop"
    /\ cur = NoCur
    /\ handle = "none"
    /\ passed = {}
    /\ order = <<>>
    /\ call = NoCall
    /\ faults = 0
    /\ runs = 0
    /\ up = NoUp
    /\ uniqueHit = FALSE
    /\ ran = NoRan
    /\ IdleSession

NextRetrieve ==
    \/ \E k \in -1..MaxK : StartSearch(k)
    \/ \E refreshContext \in BOOLEAN : StartAskQwen(refreshContext)
    \/ StartReview
    \/ ReviewReadFails
    \/ \E n \in 0..MaxReviewFiles : ReviewInitDB(n)
    \/ ExecOk
    \/ \E v \in QueryVectors : SearchEmbedOk(v)
    \/ SearchEmbedFails
    \/ SearchDbError
    \/ SearchResolves
    \/ SetupContextOk
    \/ SetupContextFails
    \/ QueryOllamaOk
    \/ QueryOllamaFails
    \/ CleanupOk
    \/ CleanupFails
    \/ ReviewFileDone
    \/ ReviewExit0
    \/ ReviewExit1

SpecRetrieve == InitRetrieve /\ [][NextRetrieve]_vars

(***************************************************************************)
(* Claims checked under SpecRetrieve                                       *)
(***************************************************************************)
\* a call of search on its own has resolved
SearchResolved == sess.kind = "search" /\ sess.pc = "resolved"

Min(a, b) == IF a < b THEN a ELSE b

\* the score search computes for a stored row
ScoreOfRow(d) == cosineSim(qEmb, JSONparse(d.embedding))

\* C7: every session that obtained a store handle from initDB (askQwen, main
\* of the review generator, main of the indexer) has closed that handle by
\* the time it ends, on success and on failure alike.
C7_HandleClosedWhenSessionEnds ==
    /\ (sess.kind \in {"askQwen", "review"} /\ SessEnded /\ handle # "none")
          => handle = "closed"
    /\ (proc \in {"exit0", "exit1", "crashed"}) => handle = "closed"

\* C9: for a non-empty store and k >= 1, search resolves with exactly
\* min(k, number of documents) entries, each for a distinct stored document,
\* in non-increasing score order, and every document left out scores no
\* more than the smallest returned score.
C9_SearchReturnsTopK ==
    (SearchResolved /\ docs # {} /\ sess.k >= 1) =>
        /\ Len(results) = Min(sess.k, Cardinality(docs))
        /\ \A i \in DOMAIN results : \E d \in docs : d.path = results[i].path
        /\ \A i, j \in DOMAIN results : results[i].path = results[j].path => i = j
        /\ \A i, j \in DOMAIN results : i < j => ScoreGE(results[i].score, results[j].score)
        /\ \A d \in docs :
              (\A i \in DOMAIN results : results[i].path # d.path) =>
                  \A i \in DOMAIN results : ScoreGE(results[i].score, ScoreOfRow(d))

\* C10: for a non-empty store and any requested k, zero and negative k and k
\* above the number of documents included, search resolves with at least 1
\* and at most total entries, and they are a prefix of the full ranked list.
C10_KClampedToStore ==
    (SearchResolved /\ docs # {}) =>
        /\ Len(results) >= 1
        /\ Len(results) <= Cardinality(docs)
        /\ \E full \in SortOutcomes(Scored(docs, refs, qEmb)) :
              results = SubSeq(full, 1, Len(results))

\* C11: when the query vector or a stored embedding has zero norm, search
\* rejects or leaves the Document out: no entry search resolved with carries
\* a NaN score, and the entries are in descending order of score.
C11_NoNaNScoreReturned ==
    \A i \in DOMAIN results :
        /\ ~IsNaN(results[i].score)
        /\ \A j \in DOMAIN results : i < j => ScoreGE(results[i].score, results[j].score)

(***************************************************************************)
(* Claims about failures of the embedding request                          *)
(***************************************************************************)
\* C12: when the embedding request of an addFile call failed, the call was
\* rejected to its caller, no statement for the path was issued, and the
\* committed Document and references of the path are those of the time
\* addFile was called.
C12_EmbedFailureAbortsUpsert ==
    call.providerFailed =>
        /\ call.outcome = "rejected"
        /\ proc = "exit1"
        /\ \A i \in DOMAIN queue : queue[i].path # call.path
        /\ {d \in cdocs : d.path = call.path} = call.pre.docs
        /\ {r \in crefs : r.file_path = call.path} = call.pre.refs

\* the request failed for a path that had a Document and references stored
C12_Witness ==
    /\ call.providerFailed
    /\ call.outcome = "rejected"
    /\ call.pre.docs # {}
    /\ call.pre.refs # {}

\* C13: when the embedding request for the query failed, search has
\* rejected: the store was not queried and nothing was resolved, neither to
\* a caller of search nor to askQwen nor to the review of that file.
C13_QueryEmbedFailureRejectsSearch ==
    sess.embedFailed =>
        /\ sess.pc \notin {"rows", "fetch", "setup", "query", "cleanup", "resolved"}
        /\ sess.kind \in {"search", "askQwen"} =>
              (sess.pc = "rejected" /\ qEmb = <<>> /\ results = <<>>)

\* a search on a store with Documents was rejected by the failed request
C13_Witness ==
    /\ sess.embedFailed
    /\ sess.kind = "search"
    /\ sess.pc = "rejected"
    /\ docs # {}

(***************************************************************************)
(* Claims about text that does not parse                                   *)
(***************************************************************************)
\* C14: for a text the parser rejects extractVariableRefs returns the empty
\* sequence, and an upsert of it whose statements all executed commits one
\* Document for the path, with the new content and embedding, and no
\* reference for the path.
C14_ParseFailureStillIndexed ==
    (/\ UpsertEnded
     /\ up.committed
     /\ ~up.failed
     /\ ~ParseOk(TextOf[up.text], up.path))
    => /\ extractVariableRefs(TextOf[up.text], up.path) = <<>>
       /\ \E d \in cdocs : /\ d.path = up.path
                           /\ d.content = up.text
                           /\ d.embedding = up.emb
                           /\ RowsOf(cdocs, up.path) = {d}
       /\ \A r \in crefs : r.file_path # up.path

\* a path stored with references was indexed again with text that does not
\* parse
C14_Witness ==
    /\ UpsertEnded
    /\ up.committed
    /\ ~up.failed
    /\ ~ParseOk(TextOf[up.text], up.path)
    /\ \E r \in up.pre.refs : r.file_path = up.path

(***************************************************************************)
(* Claims about the tree walk                                              *)
(***************************************************************************)
\* the eligible files at or below entry k of a directory
EntryFiles(dirPath, k) ==
    LET file == ReadDir[dirPath][k]
        fullPath == PathJoin(dirPath, file)
    IN  IF IsDirectory(fullPath)
        THEN (IF file \in IGNORE_DIRS THEN {} ELSE EligibleUnder(fullPath))
        ELSE (IF ExtOf[fullPath] \in CODE_EXTENSIONS THEN {fullPath} ELSE {})

\* the paths of order
Ordered == {order[i] : i \in DOMAIN order}

\* where a path stands in order
Position(p) == CHOOSE i \in DOMAIN order : order[i] = p

\* the walk of the tree is over and no embedding request failed
WalkCompleted == proc \in {"draining", "exit0"}

\* C15: no file is passed to addFile twice; when the walk of a run without
\* failure is over every eligible file was passed exactly once; and every
\* file below a subdirectory is passed before any file of a later sibling
\* of that subdirectory.
C15_EachEligibleFileOnceDepthFirst ==
    /\ \A i, j \in DOMAIN order : order[i] = order[j] => i = j
    /\ WalkCompleted => (Ordered = EligibleFiles /\ Len(order) = Cardinality(EligibleFiles))
    /\ \A dirPath \in DOMAIN ReadDir : \A i, j \in DOMAIN ReadDir[dirPath] :
          (i < j /\ IsDirectory(PathJoin(dirPath, ReadDir[dirPath][i]))) =>
              \A f \in EntryFiles(dirPath, i), g \in EntryFiles(dirPath, j) :
                  g \in Ordered => (f \in Ordered /\ Position(f) < Position(g))

\* a run walked the subdirectory and then its sibling and came to its end
C15_Witness ==
    /\ proc = "exit0"
    /\ order = <<"lib/b.ts", "z.js">>

\* every path of the tree with the names of the directories on it below the
\* root (its own name included for a directory)
RECURSIVE PathsWithDirs(_, _)
PathsWithDirs(dirPath, names) ==
    UNION { LET file == ReadDir[dirPath][k]
                fullPath == PathJoin(dirPath, file)
            IN  IF IsDirectory(fullPath)
                THEN {[path |-> fullPath, dirs |-> names \cup {file}]}
                     \cup PathsWithDirs(fullPath, names \cup {file})
                ELSE {[path |-> fullPath, dirs |-> names]}
          : k \in 1..Len(ReadDir[dirPath]) }

TreePaths == PathsWithDirs(RootDir, {}) \cup {[path |-> RootDir, dirs |-> {}]}

DirsOf(p) == (CHOOSE e \in TreePaths : e.path = p).dirs

\* a file the indexer may touch: a regular file with a code extension and
\* no ignored directory on its path
Indexable(p) ==
    /\ ~IsDirectory(p)
    /\ ExtOf[p] \in CODE_EXTENSIONS
    /\ DirsOf(p) \cap IGNORE_DIRS = {}

Console ==
    IF proc = "none" THEN <<>>
    ELSE <<[kind |-> "initializing", path |-> ""]>>
         \o [i \in DOMAIN order |-> [kind |-> "processing", path |-> order[i]]]
         \o (CASE proc \in {"draining", "exit0"} -> <<[kind |-> "complete", path |-> ""]>>
               [] proc = "exit1" -> <<[kind |-> "failed", path |-> ""]>>
               [] OTHER -> <<>>)

\* C17: a tree run that has ended has reported a tally of files processed
\* and files failed, and the two add up to the number of eligible files.
C17_FinalTallyReported ==
    proc \in {"exit0", "exit1", "crashed"} =>
        \E i \in DOMAIN Console :
            /\ Console[i].kind = "tally"
            /\ Console[i].processed + Console[i].failed = Cardinality(EligibleFiles)

(***************************************************************************)
(* Claims about what search hands back                                     *)
(***************************************************************************)
\* C18: on a store without Documents a search whose query was embedded
\* resolves, and what it resolves with is the empty sequence.
C18_EmptyStoreEmptyResult ==
    docs = {} =>
        /\ results = <<>>
        /\ (sess.pc = "rows" /\ queue = <<>>) => ENABLED SearchResolves

\* search was called with k >= 1 on an empty store and resolved
C18_Witness ==
    /\ SearchResolved
    /\ docs = {}
    /\ sess.k >= 1
    /\ qEmb # <<>>
    /\ results = <<>>

\* the reference rows stored for a path
StoredRefs(p) == {r \in refs : r.file_path = p}

\* C19: every reference extraction finds in a stored Document's text is in
\* the store, names of inherited base-object properties included; in every
\* entry search resolved with, the keys of the variables map are the
\* non-empty names of the Document's stored references that are no such
\* property name, each with one occurrence per stored reference.
C19_PrototypeNamesStoredNotAggregated ==
    /\ \A d \in docs :
          LET extracted == extractVariableRefs(TextOf[d.content], d.path)
          IN  \A n \in {extracted[i].name : i \in DOMAIN extracted} :
                  Cardinality({i \in DOMAIN extracted : extracted[i].name = n})
                    = Cardinality({r \in StoredRefs(d.path) : r.variable_name = n})
    /\ \A i \in DOMAIN results :
          LET entry == results[i]
              mine == StoredRefs(entry.path)
          IN  /\ DOMAIN entry.variables
                    = {r.variable_name : r \in mine} \ (ObjectPrototypeNames \cup {""})
              /\ \A n \in DOMAIN entry.variables :
                    Len(entry.variables[n])
                      = Cardinality({r \in mine : r.variable_name = n})

\* search resolved with a Document that has a stored reference named
\* toString and another one named a
C19_Witness ==
    \E i \in DOMAIN results :
        /\ \E r \in StoredRefs(results[i].path) : r.variable_name = "toString"
        /\ \E r \in StoredRefs(results[i].path) : r.variable_name = "a"
        /\ "a" \in DOMAIN results[i].variables

\* two entries of a result list with equal scores
Tied(res, i, j) == ScoreGE(res[i].score, res[j].score) /\ ScoreGE(res[j].score, res[i].score)

CreatedBy(op) ==
    CASE op = "CREATE_DOCS" -> "docs"
      [] op = "CREATE_REFS" -> "variable_refs"
      [] op = "CREATE_IDX_VAR_NAME" -> "idx_var_name"
      [] op = "CREATE_IDX_FILE_PATH" -> "idx_file_path"

\* C23: initDB on a store whose tables and indices exist leaves the schema
\* and every row as they are, so that running it any number of times equals
\* running it once: a step that takes a statement of initDB off the queue
\* while the object it creates exists changes neither the schema nor a row.
C23_InitDBIdempotent ==
    [][(/\ queue # <<>>
        /\ queue' = Tail(queue)
        /\ Head(queue).op \in {InitDBStmts[i].op : i \in DOMAIN InitDBStmts}
        /\ CreatedBy(Head(queue).op) \in schema)
       => (schema' = schema /\ docs' = docs /\ refs' = refs /\ cdocs' = cdocs /\ crefs' = crefs)]_vars

\* the second call on a handle of initDB is about to read a store that holds
\* rows: the four statements of its initDB have run on the existing schema
C23_Witness ==
    /\ sessions = 2
    /\ sess.pc = "rows"
    /\ queue = <<>>
    /\ schema = {"docs", "variable_refs", "idx_var_name", "idx_file_path"}
    /\ docs # {}
    /\ refs # {}

(***************************************************************************)
(* SpecCosine: cosineSim applied to pairs of vectors of equal length       *)
(***************************************************************************)
\* the longest vector
MaxDim == 3

IsZeroVector(v) == \A i \in DOMAIN v : v[i] = 0

\* the vectors are of 0 and 1, the zero vectors among them
InitCosine ==
    /\ pw = NoPw
    /\ IdleExtract
    /\ IdleIndexer
    /\ IdleSession
    /\ \E a, b \in UNION {[1..n -> 0..1] : n \in 2..MaxDim} :
          /\ Len(a) = Len(b)
          /\ cs = [NoCs EXCEPT !.a = a, !.b = b]

\* cosineSim(a, b) and cosineSim(b, a)
Score ==
    /\ ~cs.done
    /\ cs' = [cs EXCEPT !.ab = cosineSim64(cs.a, cs.b), !.ba = cosineSim64(cs.b, cs.a), !.done = TRUE]
    /\ UNCHANGED <<exVars, patchVars, disk, storeVars, walkVars, histVars, sessVars>>

NextCosine == Score

SpecCosine == InitCosine /\ [][NextCosine]_vars

\* C24: for non-zero vectors a, b and v of equal length cosineSim(v, v) is
\* 1, cosineSim(a, b) is cosineSim(b, a), and the score lies in [-1, 1].
C24_CosineSimAlgebra ==
    (cs.done /\ ~IsZeroVector(cs.a) /\ ~IsZeroVector(cs.b))
    => /\ cs.a = cs.b => IsOne64(cs.ab)
       /\ cs.ab = cs.ba
       /\ InUnitRange64(cs.ab)

\* the import declarations of a text
ImportsOf(t) ==
    {TextOf[t].body[i] : i \in {j \in DOMAIN TextOf[t].body : TextOf[t].body[j].type = "ImportDeclaration"}}

\* the row binds the name a specifier of the declaration introduces and has
\* the module specifier of the declaration for its source_path
RowOfImport(r, decl) ==
    /\ r.source_path = decl.kids[Len(decl.kids)].value
    /\ \E i \in 1..(Len(decl.kids) - 1) :
          r.variable_name = decl.kids[i].kids[Len(decl.kids[i].kids)].name

\* C25: every variable_refs row in the store has a non-null source_path if
\* and only if its ref_type is import, and then source_path is the module
\* specifier of the import declaration the row came from, a declaration of
\* a text of its file.
C25_SourcePathIffImport ==
    \A r \in refs :
        /\ (r.source_path # NULL) <=> (r.ref_type = "import")
        /\ r.ref_type = "import"
              => \E t \in TextsOf[r.file_path] : \E decl \in ImportsOf(t) : RowOfImport(r, decl)

\* the context a call of askQwen sends when nothing but its arguments and
\* the store decides: the one setupContext answers for the text built from
\* the results of its own search
FreshContext == [set |-> TRUE, base |-> ContextText(results), turns |-> 0]

\* C26: no mutable state other than the store is carried from one call to
\* the next: whether askQwen sets up a fresh model context and which
\* context it sends with the query depend on the arguments of the call and
\* on the store alone, so that every call sends what the first call of a
\* process sends, the context set up from its own search results.
C26_ContextDependsOnCallOnly ==
    (sess.kind = "askQwen" /\ sess.pc = "query") => currentContext = FreshContext

(***************************************************************************)
(* C27                                                                     *)
(***************************************************************************)
\* the statements one addFile call queues
UpsertOps == {"BEGIN", "DELETE_REFS", "DELETE_DOC", "INSERT_DOC", "INSERT_REF", "COMMIT"}

\* C27: the statements of two upsert transactions on one handle never
\* interleave.  The store takes up a BEGIN only when the statement it took
\* up before was not inside another call's BEGIN..COMMIT (nothing, a
\* statement of initDB, or the COMMIT of the earlier call), and it takes up
\* any later statement of an upsert only right after a statement of the same
\* call that is not its COMMIT.  This holds although addFile has returned,
\* and a later addFile has queued, before the statements execute.
C27_UpsertsNeverInterleave ==
    queue # <<>> =>
        LET s == Head(queue)
        IN  /\ s.op = "BEGIN" => ran.op \notin UpsertOps \ {"COMMIT"}
            /\ s.op \in UpsertOps \ {"BEGIN"} =>
                  /\ ran.op \in UpsertOps \ {"COMMIT"}
                  /\ ran.path = s.path

\* the earlier call is in the middle of its transaction while the later
\* call, already returned, has its BEGIN in the queue behind it
C27_Witness ==
    /\ queue # <<>>
    /\ ran.op \in UpsertOps \ {"COMMIT"}
    /\ Head(queue).path = ran.path
    /\ Head(queue).op \in UpsertOps \ {"BEGIN"}
    /\ \E i \in DOMAIN queue : queue[i].op = "BEGIN" /\ queue[i].path # ran.path

(***************************************************************************)
(* C28                                                                     *)
(***************************************************************************)
\* the committed rows of a path: its Document row and its references
RowsOfPath(q) ==
    [docs |-> {d \in cdocs : d.path = q}, refs |-> {r \in crefs : r.file_path = q}]

\* a step of addFile(db, p): the embedding request of the call resolves or
\* fails, or the store takes up one of the statements the call queued
AddFileStep(p) ==
    \/ /\ proc = "walking"
       /\ pc = "embed"
       /\ cur.path = p
       /\ pc' = "loop"
    \/ /\ queue # <<>>
       /\ Head(queue).op \in UpsertOps
       /\ Head(queue).path = p
       /\ \/ queue' = Tail(queue) /\ ran' = [op |-> Head(queue).op, path |-> p]
          \/ proc' = "crashed"

MaxEntries == 2

\* String.prototype.trim: the text from its first to its last character
\* that is not white space
StrTrim(t) ==
    LET inked == {k \in DOMAIN t : t[k] \notin {" ", "\n"}}
    IN  IF inked = {} THEN <<>>
        ELSE SubSeq(t, CHOOSE k \in inked : \A n \in inked : k <= n,
                       CHOOSE k \in inked : \A n \in inked : k >= n)

\* String.prototype.toLowerCase on the values an environment variable takes
ToLowerCase ==
    [v \in {"", "true", "TRUE", "false", "False", "1"} |->
        CASE v = "TRUE" -> "true"
          [] v = "False" -> "false"
          [] OTHER -> v]

\* (process.env.AI_REVIEW_APPLY || 'false').toLowerCase() === 'true'
shouldApply(env) ==
    ToLowerCase[IF env.AI_REVIEW_APPLY = "" THEN "false" ELSE env.AI_REVIEW_APPLY] = "true"

\* entries the review generator writes, each with filePath and
\* review.autofixes (an array or missing) whose items have a patch (a string
\* or something else): a fix with blanks around the diff, fixes without a
\* patch, a review without autofixes, two fixes for a file of the same base
\* name
SampleEntries ==
    { [filePath |-> "a.ts",
       autofixes |-> [isArray |-> TRUE,
                      items |-> <<[isString |-> TRUE, text |-> <<" ", "+", "\n">>]>>]],
      [filePath |-> "a.ts",
       autofixes |-> [isArray |-> TRUE,
                      items |-> <<[isString |-> TRUE, text |-> <<" ", "\n">>],
                                  [isString |-> FALSE, text |-> <<>>]>>]],
      [filePath |-> "my file.ts",
       autofixes |-> [isArray |-> FALSE, items |-> <<>>]],
      [filePath |-> "lib/a.ts",
       autofixes |-> [isArray |-> TRUE,
                      items |-> <<[isString |-> TRUE, text |-> <<"-", "\n", "+">>],
                                  [isString |-> TRUE, text |-> <<>>]>>]] }

\* sanitizeName(`${path.basename(filePath)}_${idx + 1}`): runs of characters
\* not allowed in a file name, blanks among them, become one underscore
sanitizeName(filePath, idx) ==
    LET basename == IF filePath = "lib/a.ts" THEN "a.ts" ELSE filePath
    IN  [name |-> IF basename = "my file.ts" THEN "my_file.ts" ELSE basename, n |-> idx + 1]

\* fs.writeFileSync(filePath, content): the file is created or replaced
WriteFile(files, filePath, content) ==
    {f \in files : f.path # filePath} \cup {[path |-> filePath, content |-> content]}

\* of an entry, for each of its fixes:
\* const fixes = Array.isArray(review.autofixes) ? review.autofixes : []
\* const patch = typeof fix.patch === 'string' ? fix.patch.trim() : ''
Patches(entry) ==
    IF entry.autofixes.isArray
    THEN [k \in DOMAIN entry.autofixes.items |->
            IF entry.autofixes.items[k].isString
            THEN StrTrim(entry.autofixes.items[k].text)
            ELSE <<>>]
    ELSE <<>>

\* tryGitApply(patchPath, { checkOnly }): the command line that is run and
\* the value returned, true when git ends with status 0
tryGitApply(checkOnly, succeeds) ==
    [cmd |-> [checkOnly |-> checkOnly, ok |-> succeeds], value |-> succeeds]

restOfModel == <<exVars, calcVars, disk, storeVars, walkVars, histVars, sessVars>>

\* readJson(inputFile) finds no file or no JSON, a payload whose reviews is
\* not an array, or a payload with reviews
InitPatch ==
    /\ IdleExtract
    /\ IdleIndexer
    /\ IdleSession
    /\ cs = NoCs
    /\ \E readable, reviewsIsArray \in BOOLEAN,
          reviews \in UNION {[1..n -> SampleEntries] : n \in 0..MaxEntries},
          apply \in {"", "true", "TRUE", "false"}, open \in {"", "False"}, ci \in {"", "true"} :
          /\ ~(readable /\ reviewsIsArray) => reviews = <<>>
          /\ ~readable => ~reviewsIsArray
          /\ pw = [NoPw EXCEPT
                     !.pc = "start",
                     !.input = [readable |-> readable, reviewsIsArray |-> reviewsIsArray,
                                reviews |-> reviews],
                     !.env = [AI_REVIEW_APPLY |-> apply, AI_REVIEW_OPEN |-> open, CI |-> ci]]

\* const payload = readJson(inputFile); an unreadable file throws out of
\* main and the uncaught exception ends the process with code 1
ReadJson ==
    /\ pw.pc = "start"
    /\ pw' = IF pw.input.readable
             THEN [pw EXCEPT !.pc = "loop", !.i = 1, !.j = 1,
                             !.reviews = IF pw.input.reviewsIsArray THEN pw.input.reviews ELSE <<>>]
             ELSE [pw EXCEPT !.pc = "exited", !.exit = 1]
    /\ UNCHANGED restOfModel

\* the fixes of the entry are done: the next entry of reviews
NextEntry ==
    /\ pw.pc = "loop"
    /\ pw.i <= Len(pw.reviews)
    /\ pw.j > Len(Patches(pw.reviews[pw.i]))
    /\ pw' = [pw EXCEPT !.i = @ + 1, !.j = 1]
    /\ UNCHANGED restOfModel

\* if (!patch) continue
SkipFix ==
    /\ pw.pc = "loop"
    /\ pw.i <= Len(pw.reviews)
    /\ pw.j <= Len(Patches(pw.reviews[pw.i]))
    /\ Patches(pw.reviews[pw.i])[pw.j] = <<>>
    /\ pw' = [pw EXCEPT !.j = @ + 1]
    /\ UNCHANGED restOfModel

\* a fix with a patch: its file is written and it joins the combined patch,
\* both as patch + (patch.endsWith('\n') ? '' : '\n')
WritePatch ==
    /\ pw.pc = "loop"
    /\ pw.i <= Len(pw.reviews)
    /\ pw.j <= Len(Patches(pw.reviews[pw.i]))
    /\ LET patch == Patches(pw.reviews[pw.i])[pw.j]
           outPath == [dir |-> "patches", file |-> sanitizeName(pw.reviews[pw.i].filePath, pw.j - 1)]
           content == IF patch # <<>> /\ patch[Len(patch)] = "\n" THEN patch ELSE Append(patch, "\n")
       IN  /\ patch # <<>>
           /\ pw' = [pw EXCEPT !.files = WriteFile(@, outPath, content),
                               !.combined = @ \o content,
                               !.individual = Append(@, outPath),
                               !.count = @ + 1,
                               !.j = @ + 1]
    /\ UNCHANGED restOfModel

\* writeFileSafe(outCombined, combined), then the report on the console;
\* shouldOpen is (process.env.AI_REVIEW_OPEN || 'true').toLowerCase() !==
\* 'false' && process.env.CI !== 'true'
WriteCombined ==
    /\ pw.pc = "loop"
    /\ pw.i > Len(pw.reviews)
    /\ LET open == IF pw.env.AI_REVIEW_OPEN = "" THEN "true" ELSE pw.env.AI_REVIEW_OPEN
           shouldOpen == ToLowerCase[open] # "false" /\ pw.env.CI # "true"
       IN
       pw' = [pw EXCEPT !.files = WriteFile(@, [dir |-> "ai-review",
                                                file |-> [name |-> "autofixes", n |-> 0]],
                                            pw.combined),
                        !.pc = IF shouldOpen THEN "open" ELSE "apply"]
    /\ UNCHANGED restOfModel

\* openInEditor: true when one of the spawn calls did not throw
OpenInEditor ==
    /\ pw.pc = "open"
    /\ \E opened \in BOOLEAN : pw' = [pw EXCEPT !.opened = opened, !.pc = "apply"]
    /\ UNCHANGED restOfModel

\* if (shouldApply && count > 0) is false: main returns
SkipApply ==
    /\ pw.pc = "apply"
    /\ ~(shouldApply(pw.env) /\ pw.count > 0)
    /\ pw' = [pw EXCEPT !.pc = "returned"]
    /\ UNCHANGED restOfModel

\* a handler that goes on to apply a patch that failed the check
GitCheck_NoExit(succeeds) ==
    /\ pw.pc = "apply"
    /\ shouldApply(pw.env) /\ pw.count > 0
    /\ LET ok == tryGitApply(TRUE, succeeds)
       IN  pw' = [pw EXCEPT !.cmds = Append(@, ok.cmd), !.pc = "applying"]
    /\ UNCHANGED restOfModel

\* const ok = tryGitApply(outCombined, { checkOnly: true }); if (!ok) process.exit(2)
GitCheck(succeeds) ==
    /\ pw.pc = "apply"
    /\ shouldApply(pw.env) /\ pw.count > 0
    /\ LET ok == tryGitApply(TRUE, succeeds)
       IN  pw' = IF ok.value
                 THEN [pw EXCEPT !.cmds = Append(@, ok.cmd), !.pc = "applying"]
                 ELSE [pw EXCEPT !.cmds = Append(@, ok.cmd), !.pc = "exited", !.exit = 2]
    /\ UNCHANGED restOfModel

\* const applied = tryGitApply(outCombined, { checkOnly: false }); a failed
\* three-way apply leaves the tree as it was or with conflicts, and the
\* process exits with 3
GitApply(succeeds) ==
    /\ pw.pc = "applying"
    /\ LET applied == tryGitApply(FALSE, succeeds)
       IN  IF applied.value
           THEN pw' = [pw EXCEPT !.cmds = Append(@, applied.cmd), !.tree = "patched", !.pc = "returned"]
           ELSE \E tree \in {"clean", "conflicts"} :
                   pw' = [pw EXCEPT !.cmds = Append(@, applied.cmd), !.tree = tree,
                                    !.pc = "exited", !.exit = 3]
    /\ UNCHANGED restOfModel

\* main has returned: the process ends with code 0 when nothing is pending.
\* When the editor command that was spawned does not exist the child emits
\* 'error' after main has returned, nothing listens, and the exception ends
\* the process with code 1.
ProcessEnds ==
    /\ pw.pc = "returned"
    /\ \E code \in IF pw.opened THEN {0, 1} ELSE {0} :
          pw' = [pw EXCEPT !.pc = "exited", !.exit = code]
    /\ UNCHANGED restOfModel

NextPatch ==
    \/ ReadJson
    \/ NextEntry
    \/ SkipFix
    \/ WritePatch
    \/ WriteCombined
    \/ OpenInEditor
    \/ SkipApply
    \/ \E succeeds \in BOOLEAN : GitCheck(succeeds)
    \/ \E succeeds \in BOOLEAN : GitApply(succeeds)
    \/ ProcessEnds

SpecPatch == InitPatch /\ [][NextPatch]_vars

\* some patch file written by the loop holds a patch
NonEmptyPatchWritten ==
    /\ pw.count > 0
    /\ \E k \in DOMAIN pw.individual :
          \E f \in pw.files : f.path = pw.individual[k] /\ f.content # <<>>

\* C29: git apply without --check has run only when AI_REVIEW_APPLY is
\* true, a non-empty autofix patch was written and the git apply --check
\* run just before it succeeded; when the check has failed the process has
\* exited with code 2, nothing was applied and the tree is untouched; when
\* the apply itself has failed the process has exited with code 3.
C29_ApplyOnlyAfterCheck ==
    \A k \in DOMAIN pw.cmds :
        /\ ~pw.cmds[k].checkOnly =>
              /\ shouldApply(pw.env)
              /\ NonEmptyPatchWritten
              /\ k > 1
              /\ pw.cmds[k - 1].checkOnly
              /\ pw.cmds[k - 1].ok
        /\ (pw.cmds[k].checkOnly /\ ~pw.cmds[k].ok) =>
              /\ pw.pc = "exited" /\ pw.exit = 2
              /\ \A n \in DOMAIN pw.cmds : pw.cmds[n].checkOnly
              /\ pw.tree = "clean"
        /\ (~pw.cmds[k].checkOnly /\ ~pw.cmds[k].ok) =>
              pw.pc = "exited" /\ pw.exit = 3

\* the check passed, the apply ran and failed, and the process exited with 3
C29_Witness ==
    /\ Len(pw.cmds) = 2
    /\ pw.cmds[1].checkOnly /\ pw.cmds[1].ok
    /\ ~pw.cmds[2].checkOnly /\ ~pw.cmds[2].ok
    /\ pw.exit = 3
    /\ NonEmptyPatchWritten

====
